---- MODULE Spec2Model ----
(***************************************************************************)
(* A model of the message stream of qubes-gui-client                       *)
(* (src/qubes-gui-client/src/buffer.rs, RawMessageStream) on top of an     *)
(* abstract vchan, together with Client::send_raw and the message length   *)
(* table of the qubes-gui crate.                                           *)
(*                                                                         *)
(* Bytes are naturals below 256.  The inbound direction of the vchan is    *)
(* the sequence rstream of all bytes the peer sends on this connection,    *)
(* of which rcursor have been consumed and avail are ready (data_ready).   *)
(* The outbound direction is the sequence sent of the bytes handed to the  *)
(* vchan, and space is buffer_space.                                       *)
(***************************************************************************)
EXTENDS Integers, Sequences, FiniteSets, TLC

VARIABLES
    state,            \* RawMessageStream.state (the ReadState variant)
    header,           \* the Header held by ReadState::ReadingBody
    count,            \* read_so_far of ReadingBody, the length left of Discard
    queue,            \* RawMessageStream.queue (write buffer)
    buffer,           \* RawMessageStream.buffer (read buffer)
    did_reconnect,    \* RawMessageStream.did_reconnect
    xconf,            \* RawMessageStream.xconf, as bytes
    present_windows,  \* Client.present_windows
    status,           \* vchan status()
    rstream,          \* every byte the peer sends on this connection
    rcursor,          \* bytes of rstream already received
    avail,            \* vchan data_ready()
    sent,             \* bytes handed to the vchan on this connection
    space,            \* vchan buffer_space()
    rfail,            \* the vchan's read call returns -1
    wfail,            \* the vchan's send call returns -1
    pc,               \* "idle", or "recv": read_message is inside a blocking recv
    ready,            \* the local `ready` of the suspended read_message
    op,               \* the last operation that ran
    res,              \* what it returned
    delivered,        \* history: the (header, body) pairs read_message returned
    written,          \* history: all buffers passed to write, concatenated
    direct,           \* history: bytes at the head of sent that bypassed write
    lastHdr,          \* history: the last header read_message parsed
    ioerr,            \* history: a vchan call has failed on this connection
    early,            \* history: bytes passed to write before ReadingHeader
    lastSend,         \* history: what the last send_raw put on the vchan
    peer,             \* history: the messages that make up rstream
    waited,           \* history: the callers of the vchan's wait()
    dropped,          \* history: the state the last reconnect found, when it
                      \* found bytes in the queue and in the buffer
    dmn,              \* the daemon's stream at the other end of the vchan
    gnt,              \* the grant allocator, its buffers and the OS behind it
    probe             \* the argument and the result of a pure function

vars == <<state, header, count, queue, buffer, did_reconnect, xconf,
          present_windows, status, rstream, rcursor, avail, sent, space,
          rfail, wfail, pc, ready, op, res, delivered, written, direct,
          lastHdr, ioerr, early, lastSend, peer, waited, dropped, dmn,
          gnt, probe>>

streamVars == <<state, header, count, queue, buffer, did_reconnect, xconf>>
histVars == <<delivered, written, direct, lastHdr, ioerr, early, lastSend, peer>>
auxVars == <<waited, dropped, dmn, gnt, probe>>

----------------------------------------------------------------------------
(* Bounds of the model *)

\* messages in one inbound stream
MaxMsgs == 2
\* largest buffer_space the vchan offers
MaxSpace == 3
\* bytes passed to write in one run
MaxWritten == 4
\* longest buffer passed to one write call
MaxBuf == 2
\* send_raw calls in one run
MaxSends == 2
\* kind numbers above the last kind of the table that are asked about
MaxKindsBeyond == 20
\* the window dimensions probed: this many at each end of the range
MaxDim == 3

----------------------------------------------------------------------------
(* Bytes, little-endian words, vectors *)

Min(a, b) == IF a <= b THEN a ELSE b
Max(a, b) == IF a >= b THEN a ELSE b

Take(s, n) == SubSeq(s, 1, n)
Drop(s, n) == SubSeq(s, n + 1, Len(s))

IsPrefix(s, t) == Len(s) <= Len(t) /\ Take(t, Len(s)) = s

\* as_bytes of a u32 (native byte order, little-endian on amd64)
LE4(x) == << x % 256, (x \div 256) % 256, (x \div 65536) % 256,
             (x \div 16777216) % 256 >>

\* the u32 whose bytes are b; the values from 2^31 on, which TLC's integers
\* do not hold, are all read as 2^31 - 1: they are kinds the table does not
\* know and lengths no kind allows and no stream of the model reaches
FromLE4(b) ==
    IF b[4] >= 128 THEN 2147483647
    ELSE b[1] + 256 * b[2] + 65536 * b[3] + 16777216 * b[4]

\* Vec::resize(n, 0): truncate, or pad with zeroes; the old bytes stay
Resize(v, n) ==
    IF n <= Len(v) THEN Take(v, n) ELSE v \o [i \in 1..(n - Len(v)) |-> 0]

\* copy data over v from offset off (a read into &mut buffer[off..])
Overwrite(v, off, data) ==
    [i \in 1..Len(v) |->
        IF i > off /\ i <= off + Len(data) THEN data[i - off] ELSE v[i]]

----------------------------------------------------------------------------
(* Protocol vocabulary (qubes-gui) *)

SizeOfU32 == 4
SizeOfHeader == 3 * SizeOfU32
SizeOfXConf == 4 * SizeOfU32
\* XConfVersion is a version word followed by the XConf block
SIZE_OF_XCONF == SizeOfU32 + SizeOfXConf
\* the chunk of an unknown body the stream keeps memory for
DiscardChunk == 256

MAX_CLIPBOARD_SIZE == 65000
MAX_WINDOW_HEIGHT == 6144
MAX_WINDOW_WIDTH == 16384
DUMMY_DRV_FB_BPP == 32
MAX_WINDOW_MEM == MAX_WINDOW_WIDTH * MAX_WINDOW_HEIGHT * (DUMMY_DRV_FB_BPP \div 8)
XC_PAGE_SIZE == 4096
MAX_MFN_COUNT == (MAX_WINDOW_MEM + XC_PAGE_SIZE - 1) \div 4096
MAX_GRANT_REFS_COUNT == (MAX_WINDOW_MEM + XC_PAGE_SIZE - 1) \div 4096

MSG_KEYPRESS == 124
MSG_BUTTON == 125
MSG_MOTION == 126
MSG_CROSSING == 127
MSG_FOCUS == 128
MSG_RESIZE == 129
MSG_CREATE == 130
MSG_DESTROY == 131
MSG_MAP == 132
MSG_UNMAP == 133
MSG_CONFIGURE == 134
MSG_MFNDUMP == 135
MSG_SHMIMAGE == 136
MSG_CLOSE == 137
MSG_EXECUTE == 138
MSG_CLIPBOARD_REQ == 139
MSG_CLIPBOARD_DATA == 140
MSG_SET_TITLE == 141
MSG_KEYMAP_NOTIFY == 142
MSG_DOCK == 143
MSG_WINDOW_HINTS == 144
MSG_WINDOW_FLAGS == 145
MSG_WINDOW_CLASS == 146
MSG_WINDOW_DUMP == 147
MSG_CURSOR == 148

\* size_of of the body structs
SizeOfButton == 5 * SizeOfU32
SizeOfKeypress == 5 * SizeOfU32
SizeOfMotion == 4 * SizeOfU32
SizeOfCrossing == 7 * SizeOfU32
SizeOfFocus == 3 * SizeOfU32
SizeOfCreate == 6 * SizeOfU32
SizeOfMapInfo == 2 * SizeOfU32
SizeOfConfigure == 5 * SizeOfU32
SizeOfShmImage == 4 * SizeOfU32
SizeOfWMName == 128
SizeOfKeymapNotify == 32
SizeOfWindowHints == 9 * SizeOfU32
SizeOfWindowFlags == 2 * SizeOfU32
SizeOfWMClass == 64 + 64
SizeOfWindowDumpHeader == 4 * SizeOfU32
SizeOfCursor == SizeOfU32

None == [none |-> TRUE]
Exactly(n) == [lo |-> n, hi |-> n]

\* msg_length_limits: the inclusive range of body lengths, None if unknown
msg_length_limits(ty) ==
    CASE ty = MSG_CLIPBOARD_DATA -> [lo |-> 0, hi |-> MAX_CLIPBOARD_SIZE]
      [] ty = MSG_BUTTON -> Exactly(SizeOfButton)
      [] ty = MSG_KEYPRESS -> Exactly(SizeOfKeypress)
      [] ty = MSG_MOTION -> Exactly(SizeOfMotion)
      [] ty = MSG_CROSSING -> Exactly(SizeOfCrossing)
      [] ty = MSG_FOCUS -> Exactly(SizeOfFocus)
      [] ty = MSG_CREATE -> Exactly(SizeOfCreate)
      [] ty = MSG_DESTROY -> Exactly(0)
      [] ty = MSG_MAP -> Exactly(SizeOfMapInfo)
      [] ty = MSG_UNMAP -> Exactly(0)
      [] ty = MSG_CONFIGURE -> Exactly(SizeOfConfigure)
      [] ty = MSG_MFNDUMP -> [lo |-> 0, hi |-> 4 * MAX_MFN_COUNT]
      [] ty = MSG_SHMIMAGE -> Exactly(SizeOfShmImage)
      [] ty = MSG_CLOSE -> Exactly(0)
      [] ty = MSG_CLIPBOARD_REQ -> Exactly(0)
      [] ty = MSG_SET_TITLE -> Exactly(SizeOfWMName)
      [] ty = MSG_KEYMAP_NOTIFY -> Exactly(SizeOfKeymapNotify)
      [] ty = MSG_DOCK -> Exactly(0)
      [] ty = MSG_WINDOW_HINTS ->
            [lo |-> SizeOfWindowHints, hi |-> SizeOfKeymapNotify]
      [] ty = MSG_WINDOW_FLAGS -> Exactly(SizeOfWindowFlags)
      [] ty = MSG_WINDOW_CLASS -> Exactly(SizeOfWMClass)
      [] ty = MSG_WINDOW_DUMP ->
            [lo |-> SizeOfWindowDumpHeader,
             hi |-> SizeOfWindowDumpHeader + SizeOfU32 * MAX_GRANT_REFS_COUNT]
      [] ty = MSG_CURSOR -> Exactly(SizeOfCursor)
      [] OTHER -> None

\* a mutant of Contains: only the upper end of the range is checked
ContainsNoLower(range, x) == x <= range.hi

\* RangeInclusive::contains, as read_message uses it on the limits
Contains(range, x) == range.lo <= x /\ x <= range.hi

\* Header::as_bytes
HeaderBytes(h) == LE4(h.ty) \o LE4(h.window) \o LE4(h.untrusted_len)

\* the Header whose bytes are b (Header::as_mut_bytes filled by recv)
HeaderFromBytes(b) ==
    [ty |-> FromLE4(SubSeq(b, 1, 4)),
     window |-> FromLE4(SubSeq(b, 5, 8)),
     untrusted_len |-> FromLE4(SubSeq(b, 9, 12))]

NoHeader == [ty |-> 0, window |-> 0, untrusted_len |-> 0]

----------------------------------------------------------------------------
(* The vchan, as the stream sees it through the VchanMock trait *)

\* recv of len bytes when avl are ready: libvchan_read returns what is
\* ready, up to len; with nothing ready it fails on a closed channel and
\* otherwise blocks until the peer sends
VchanRecv(avl, len) ==
    IF rfail THEN [r |-> "err", n |-> 0]
    ELSE IF len = 0 THEN [r |-> "ok", n |-> 0]
    ELSE IF avl = 0
         THEN IF status = "Disconnected"
              THEN [r |-> "err", n |-> 0]
              ELSE [r |-> "block", n |-> 0]
         ELSE [r |-> "ok", n |-> Min(len, avl)]

\* send writes the whole slice or fails (wf: the send call returns -1)
VchanSend(wf, slice) ==
    IF wf THEN [r |-> "err", n |-> 0] ELSE [r |-> "ok", n |-> Len(slice)]

\* a mutant of write_slice: the slice is sent whatever the space is
write_slice_all(spc, wf, slice) == VchanSend(wf, slice)

\* write_slice: send as much of slice as buffer_space allows, never block
write_slice(spc, wf, slice) ==
    IF spc = 0
    THEN [r |-> "ok", n |-> 0]
    ELSE VchanSend(wf, Take(slice, Min(spc, Len(slice))))

\* a mutant of the dequeuing loop: one byte fewer is popped than was sent
PopFrontShort(q, n) == Drop(q, n - 1)

\* the loop `for _ in 0..n { queue.pop_front() }`
PopFront(q, n) == Drop(q, n)

RECURSIVE flush_loop(_, _, _, _)
\* the loop of flush_pending_writes on (queue, sent, space); the deque is
\* taken as one slice: with a send that takes all it is given, writing the
\* front and then the back slice has the same effect
flush_loop(q, snt, spc, wf) ==
    IF q = << >>
    THEN [r |-> "ok", queue |-> q, sent |-> snt, space |-> spc]
    ELSE LET w == write_slice(spc, wf, q) IN
         IF w.r = "err"
         THEN [r |-> "err", queue |-> q, sent |-> snt, space |-> spc]
         ELSE IF w.n = 0
         THEN [r |-> "ok", queue |-> q, sent |-> snt, space |-> spc]
         ELSE flush_loop(PopFront(q, w.n), snt \o Take(q, w.n), spc - w.n, wf)

\* a mutant of flush_pending_writes: nothing is taken from the queue
flush_never(q, snt, spc, wf) ==
    [r |-> "ok", queue |-> q, sent |-> snt, space |-> spc]

\* flush_pending_writes
flush_pending_writes(q, snt, spc, wf) == flush_loop(q, snt, spc, wf)

\* RawMessageStream::write on (queue, sent, space)
write(q, snt, spc, wf, buf) ==
    LET f == flush_pending_writes(q, snt, spc, wf) IN
    IF f.r = "err" THEN f
    ELSE IF f.queue # << >> THEN [f EXCEPT !.queue = f.queue \o buf]
    ELSE LET w == write_slice(f.space, wf, buf) IN
         IF w.r = "err" THEN [f EXCEPT !.r = "err"]
         ELSE [r |-> "ok",
               queue |-> IF w.n # Len(buf) THEN Drop(buf, w.n) ELSE << >>,
               sent |-> f.sent \o Take(buf, w.n),
               space |-> f.space - w.n]

\* needs_reconnect
needs_reconnect == status = "Disconnected"

----------------------------------------------------------------------------
(* read_message: the state machine.  m is the stream together with the    *)
(* locals of the call: m.ready is `ready`, m.out is "run" while the loop  *)
(* goes on, then what the call returns ("none" is Ok(None), "msg" is      *)
(* Ok(Some(..)), "block" is a recv that waits for the peer, the rest are  *)
(* the errors).                                                           *)

ErrorResults == {"io", "eof", "invalid", "refused", "already", "badread"}

\* the next n bytes of the inbound stream
Incoming(m, n) == SubSeq(m.rstream, m.rcursor + 1, m.rcursor + n)

\* the vchan after n bytes were received
Consume(m, n) == [m EXCEPT !.rcursor = @ + n, !.avail = @ - n]

\* fail / propagate: the stream is placed in the error state
fail(m, kind) ==
    [m EXCEPT !.state = "Error", !.out = kind,
              !.ioerr = @ \/ kind = "io"]

\* an Err that leaves through `?` without passing fail or propagate
return_err(m) == [m EXCEPT !.out = "io", !.ioerr = TRUE]

\* a mutant of the Connecting arm: a refused connection is waited for
ConnectingArmWaits(m) ==
    CASE status = "Connected" -> [m EXCEPT !.state = "ReadingXConf"]
      [] OTHER -> [m EXCEPT !.out = "none"]

\* ReadState::Connecting
ConnectingArm(m) ==
    CASE status = "Waiting" -> [m EXCEPT !.out = "none"]
      [] status = "Connected" -> [m EXCEPT !.state = "ReadingXConf"]
      [] OTHER -> fail(m, "refused")

\* ReadState::Error
ErrorArm(m) == fail(m, "already")

\* ReadState::ReadingXConf if ready >= SIZE_OF_XCONF
XConfArm(m) ==
    LET r == VchanRecv(m.avail, SIZE_OF_XCONF) IN
    CASE r.r = "block" -> [m EXCEPT !.out = "block"]
      [] r.r = "err" -> fail(m, "io")
      [] r.r = "ok" /\ r.n = SIZE_OF_XCONF ->
            [Consume(m, r.n) EXCEPT !.xconf = Incoming(m, r.n),
                                    !.state = "ReadingHeader",
                                    !.did_reconnect = TRUE,
                                    !.out = "none"]
      [] OTHER ->
            fail([Consume(m, r.n) EXCEPT
                      !.xconf = Overwrite(m.xconf, 0, Incoming(m, r.n))],
                 "badread")

\* what the header arm does with a header it has read in full
HeaderDecision(m, h) ==
    LET untrusted_len == h.untrusted_len
        limits == msg_length_limits(h.ty)
    IN  CASE limits = None /\ untrusted_len = 0 -> m
          [] limits = None ->
                [m EXCEPT !.state = "Discard", !.count = untrusted_len]
          [] limits # None /\ Contains(limits, untrusted_len) ->
                IF untrusted_len = 0
                THEN [m EXCEPT !.buffer = << >>,
                               !.state = "ReadingHeader",
                               !.out = "msg",
                               !.delivered = Append(@, [h |-> h, body |-> << >>])]
                ELSE [m EXCEPT !.buffer = Resize(m.buffer, untrusted_len),
                               !.state = "ReadingBody",
                               !.header = h,
                               !.count = 0]
          [] OTHER -> fail(m, "invalid")

\* ReadState::ReadingHeader if ready >= size_of::<Header>()
HeaderArm(m) ==
    LET r == VchanRecv(m.avail, SizeOfHeader) IN
    CASE r.r = "block" -> [m EXCEPT !.out = "block"]
      [] r.r = "err" -> return_err(m)
      [] r.r = "ok" /\ r.n = SizeOfHeader ->
            LET h == HeaderFromBytes(Incoming(m, r.n))
                c == Consume(m, r.n)
            IN  HeaderDecision(
                    [c EXCEPT !.ready = @ - SizeOfHeader,
                              !.lastHdr = [h |-> h, end |-> c.rcursor,
                                           ndel |-> Len(m.delivered)]],
                    h)
      [] OTHER -> fail(Consume(m, r.n), "eof")

\* a mutant of the Discard arm: the chunk is twice the size
DiscardArmTwice(m) ==
    IF m.ready = 0 THEN [m EXCEPT !.out = "none"]
    ELSE
    LET untrusted_len == m.count
        buf == Resize(m.buffer,
                      Max(Min(untrusted_len, 2 * DiscardChunk), Len(m.buffer)))
        r == VchanRecv(m.avail, Min(m.ready, Min(untrusted_len, Len(buf))))
    IN  CASE r.r = "block" -> [m EXCEPT !.buffer = buf, !.out = "block"]
          [] r.r = "err" -> fail([m EXCEPT !.buffer = buf], "io")
          [] r.n = 0 -> fail([m EXCEPT !.buffer = buf], "eof")
          [] r.n = untrusted_len ->
                [Consume(m, r.n) EXCEPT
                     !.buffer = Overwrite(buf, 0, Incoming(m, r.n)),
                     !.state = "ReadingHeader"]
          [] OTHER ->
                [Consume(m, r.n) EXCEPT
                     !.buffer = Overwrite(buf, 0, Incoming(m, r.n)),
                     !.count = untrusted_len - r.n]

\* ReadState::Discard(untrusted_len)
DiscardArm(m) ==
    IF m.ready = 0 THEN [m EXCEPT !.out = "none"]
    ELSE
    LET untrusted_len == m.count
        buf == Resize(m.buffer,
                      Max(Min(untrusted_len, DiscardChunk), Len(m.buffer)))
        r == VchanRecv(m.avail, Min(m.ready, Min(untrusted_len, Len(buf))))
    IN  CASE r.r = "block" -> [m EXCEPT !.buffer = buf, !.out = "block"]
          [] r.r = "err" -> fail([m EXCEPT !.buffer = buf], "io")
          [] r.n = 0 -> fail([m EXCEPT !.buffer = buf], "eof")
          [] r.n = untrusted_len ->
                [Consume(m, r.n) EXCEPT
                     !.buffer = Overwrite(buf, 0, Incoming(m, r.n)),
                     !.state = "ReadingHeader"]
          [] OTHER ->
                [Consume(m, r.n) EXCEPT
                     !.buffer = Overwrite(buf, 0, Incoming(m, r.n)),
                     !.count = untrusted_len - r.n]

\* a mutant of the ReadingBody arm: the body returned is the part of the
\* buffer that has been read
BodyArmReadPart(m) ==
    IF m.ready = 0 THEN [m EXCEPT !.out = "none"]
    ELSE
    LET read_so_far == m.count
        buffer_len == Len(m.buffer)
        to_read == Min(m.ready, buffer_len - read_so_far)
        r == VchanRecv(m.avail, to_read)
        filled == Overwrite(m.buffer, read_so_far, Incoming(m, r.n))
    IN  CASE r.r = "block" -> [m EXCEPT !.out = "block"]
          [] r.r = "err" -> fail(m, "io")
          [] r.n = to_read ->
                [Consume(m, r.n) EXCEPT
                     !.buffer = filled,
                     !.state = "ReadingHeader",
                     !.out = "msg",
                     !.delivered = Append(@, [h |-> m.header,
                                              body |-> Take(filled, read_so_far + r.n)])]
          [] r.n = 0 -> fail(m, "eof")
          [] OTHER ->
                [Consume(m, r.n) EXCEPT !.buffer = filled,
                                        !.count = read_so_far + r.n]

\* ReadState::ReadingBody(header, read_so_far)
BodyArm(m) ==
    IF m.ready = 0 THEN [m EXCEPT !.out = "none"]
    ELSE
    LET read_so_far == m.count
        buffer_len == Len(m.buffer)
        to_read == Min(m.ready, buffer_len - read_so_far)
        r == VchanRecv(m.avail, to_read)
        filled == Overwrite(m.buffer, read_so_far, Incoming(m, r.n))
    IN  CASE r.r = "block" -> [m EXCEPT !.out = "block"]
          [] r.r = "err" -> fail(m, "io")
          [] r.n = to_read ->
                [Consume(m, r.n) EXCEPT
                     !.buffer = filled,
                     !.state = "ReadingHeader",
                     !.out = "msg",
                     !.delivered = Append(@, [h |-> m.header, body |-> filled])]
          [] r.n = 0 -> fail(m, "eof")
          [] OTHER ->
                [Consume(m, r.n) EXCEPT !.buffer = filled,
                                        !.count = read_so_far + r.n]

\* the match on self.state without the guards on ready
StepUnguarded(m) ==
    CASE m.state = "Connecting" -> ConnectingArm(m)
      [] m.state = "Error" -> ErrorArm(m)
      [] m.state = "ReadingXConf" -> XConfArm(m)
      [] m.state = "ReadingHeader" -> HeaderArm(m)
      [] m.state = "Discard" -> DiscardArm(m)
      [] m.state = "ReadingBody" -> BodyArm(m)

\* one turn of the loop: the match on self.state
Step(m) ==
    CASE m.state = "Connecting" -> ConnectingArm(m)
      [] m.state = "Error" -> ErrorArm(m)
      [] m.state = "ReadingXConf" /\ m.ready >= SIZE_OF_XCONF -> XConfArm(m)
      [] m.state = "ReadingHeader" /\ m.ready >= SizeOfHeader -> HeaderArm(m)
      [] m.state \in {"ReadingHeader", "ReadingXConf"} -> [m EXCEPT !.out = "none"]
      [] m.state = "Discard" -> DiscardArm(m)
      [] m.state = "ReadingBody" -> BodyArm(m)

RECURSIVE Loop(_)
\* the loop of read_message, until it breaks, returns or blocks
Loop(m) ==
    IF m.out # "run" THEN m
    ELSE CHOOSE end \in {Loop(next) : next \in {Step(m)}} : TRUE

\* the stream and the locals of a read_message call whose `ready` is rdy
Machine(rdy) ==
    [state |-> state, header |-> header, count |-> count, buffer |-> buffer,
     xconf |-> xconf, did_reconnect |-> did_reconnect, ready |-> rdy,
     rstream |-> rstream, rcursor |-> rcursor, avail |-> avail,
     out |-> "run", lastHdr |-> lastHdr, delivered |-> delivered,
     ioerr |-> ioerr]

\* the state a read_message call leaves when its loop ended as m
Leave(m) ==
    /\ state' = m.state
    /\ header' = m.header
    /\ count' = m.count
    /\ buffer' = m.buffer
    /\ xconf' = m.xconf
    /\ did_reconnect' = m.did_reconnect
    /\ rcursor' = m.rcursor
    /\ avail' = m.avail
    /\ lastHdr' = m.lastHdr
    /\ delivered' = m.delivered
    /\ ioerr' = m.ioerr
    /\ ready' = IF m.out = "block" THEN m.ready ELSE 0
    /\ pc' = IF m.out = "block" THEN "recv" ELSE "idle"
    /\ res' = m.out
    /\ op' = "read_message"

----------------------------------------------------------------------------
(* What the peer sends *)

\* the version word an agent announces: major 1, minor 4
PROTOCOL_VERSION == 65536 * 1 + 4
\* the version word reconnect sends: (1u32 << 16) | 3u32
RECONNECT_VERSION == 65536 * 1 + 3

\* a message on the wire: its header, then its body
Message(ty, window, len, body) ==
    [h |-> [ty |-> ty, window |-> window, untrusted_len |-> len], body |-> body]

CloseMsg == Message(MSG_CLOSE, 1, 0, << >>)
CursorMsg == Message(MSG_CURSOR, 1, 4, <<17, 18, 19, 20>>)
\* kinds the table does not know: 9999 with a body, RESIZE without one
UnknownMsg == Message(9999, 1, 3, <<7, 8, 9>>)
ResizeMsg == Message(MSG_RESIZE, 1, 0, << >>)
\* MOTION announcing 5 bytes where 16 are required
BadMotionMsg == Message(MSG_MOTION, 1, 5, <<1, 2, 3, 4, 5>>)

ValidMsgs == {CloseMsg, CursorMsg, UnknownMsg, ResizeMsg}
PeerMsgs == ValidMsgs \cup {BadMotionMsg}

\* the sequences of 1..n messages drawn from S
Streams(S, n) == UNION {[1..k -> S] : k \in 1..n}

RECURSIVE Wire(_)
\* the bytes of a sequence of messages
Wire(msgs) ==
    IF msgs = << >> THEN << >>
    ELSE HeaderBytes(Head(msgs).h) \o Head(msgs).body \o Wire(Tail(msgs))

\* the major half of a version word
Major(ver) == ver \div 65536
\* a version word of another major: major 2, minor 4
OTHER_MAJOR_VERSION == 65536 * 2 + 4
\* the version words a daemon may send with its configuration
DaemonVersions == {PROTOCOL_VERSION, OTHER_MAJOR_VERSION}

\* the configuration a daemon of version ver sends: the version, then XConf
XConfOf(ver) == LE4(ver) \o [i \in 1..SizeOfXConf |-> 100 + i]
\* the configuration a daemon sends: the agreed version, then XConf
XConfBytes == XConfOf(PROTOCOL_VERSION)

Known(m) == msg_length_limits(m.h.ty) # None

\* the messages of a stream that the reader is to return
Expected(msgs) ==
    SelectSeq(msgs, Known)

----------------------------------------------------------------------------
(* Initial states: an agent stream as RawMessageStream::agent returns it: *)
(* connected, the version word sent, the configuration read.              *)

NoSend == [hdr |-> 0, body |-> TRUE, len |-> 0]
\* reconnect has not been called
NoDropped == "none"
\* no daemon stream is modelled at the other end
NoDaemon == [state |-> "none"]
\* no grant allocator has been made
NoAllocator == [file |-> "none"]
\* no function has been applied
NoProbe == [f |-> "none"]
NoHdr == [h |-> NoHeader, end |-> 0, ndel |-> 0]

InitStream ==
    /\ state = "ReadingHeader"
    /\ header = NoHeader
    /\ count = 0
    /\ queue = << >>
    /\ buffer = << >>
    /\ did_reconnect = FALSE
    /\ xconf = XConfBytes
    /\ present_windows = {}
    /\ status = "Connected"
    /\ rcursor = 0
    /\ avail = 0
    /\ sent = LE4(PROTOCOL_VERSION)
    /\ space = 0
    /\ rfail = FALSE
    /\ wfail = FALSE
    /\ pc = "idle"
    /\ ready = 0
    /\ op = "agent"
    /\ res = "ok"
    /\ delivered = << >>
    /\ written = << >>
    /\ direct = 4
    /\ lastHdr = NoHdr
    /\ ioerr = FALSE
    /\ early = 0
    /\ lastSend = NoSend
    /\ waited = {}
    /\ dropped = NoDropped
    /\ dmn = NoDaemon

\* the agent stream, no function applied
InitAgent == InitStream /\ probe = NoProbe /\ gnt = NoAllocator

\* the peer sends up to MaxMsgs messages, valid or not
InitRead ==
    /\ InitAgent
    /\ peer \in Streams(PeerMsgs, MaxMsgs)
    /\ rstream = Wire(peer)

----------------------------------------------------------------------------
(* Operations of the stream *)

\* read_message: flush the pending writes, then run the state machine
ReadMessage ==
    /\ pc = "idle"
    /\ LET f == flush_pending_writes(queue, sent, space, wfail) IN
       IF f.r = "err"
       THEN /\ state' = "Error"
            /\ res' = "io"
            /\ op' = "read_message"
            /\ ioerr' = TRUE
            /\ UNCHANGED <<header, count, queue, buffer, did_reconnect, xconf,
                           rcursor, avail, sent, space, pc, ready, delivered,
                           lastHdr>>
       ELSE /\ queue' = f.queue
            /\ sent' = f.sent
            /\ space' = f.space
            /\ Leave(Loop(Machine(avail)))
    /\ UNCHANGED <<present_windows, status, rstream, rfail, wfail, written,
                   direct, early, lastSend, peer, auxVars>>

\* the recv a read_message call blocked in returns, and the call goes on
Resume ==
    /\ pc = "recv"
    /\ avail > 0 \/ status = "Disconnected" \/ rfail
    /\ Leave(Loop(Machine(ready)))
    /\ UNCHANGED <<queue, sent, space, present_windows, status, rstream,
                   rfail, wfail, written, direct, early, lastSend, peer, auxVars>>

\* the next len bytes the caller writes: bytes are numbered as written
NextBuf(len) == [i \in 1..len |-> (Len(written) + i) % 256]

\* the stream has not completed the handshake of this connection
Handshaking == state \in {"Connecting", "ReadingXConf"}

\* write(buf)
WriteBytes(buf) ==
    /\ pc = "idle"
    /\ LET w == write(queue, sent, space, wfail, buf)
       IN  /\ queue' = w.queue
           /\ sent' = w.sent
           /\ space' = w.space
           /\ res' = IF w.r = "err" THEN "io" ELSE "ok"
           /\ ioerr' = (ioerr \/ w.r = "err")
           /\ written' = written \o buf
    /\ early' = IF Handshaking THEN Len(written') ELSE early
    /\ op' = "write"
    /\ UNCHANGED <<state, header, count, buffer, did_reconnect, xconf,
                   present_windows, status, rstream, rcursor, avail, rfail,
                   wfail, pc, ready, delivered, direct, lastHdr, lastSend,
                   peer, auxVars>>

\* write of the next len bytes
Write(len) ==
    /\ Len(written) + len <= MaxWritten
    /\ WriteBytes(NextBuf(len))

\* Client::send_raw_bytes with the bytes of one message: a single write
SendRawBytes(msg) == WriteBytes(Wire(<<msg>>))

\* flush_pending_writes, called on its own
Flush ==
    /\ pc = "idle"
    /\ LET f == flush_pending_writes(queue, sent, space, wfail) IN
           /\ queue' = f.queue
           /\ sent' = f.sent
           /\ space' = f.space
           /\ res' = IF f.r = "err" THEN "io" ELSE "ok"
           /\ ioerr' = (ioerr \/ f.r = "err")
    /\ op' = "flush_pending_writes"
    /\ UNCHANGED <<state, header, count, buffer, did_reconnect, xconf,
                   present_windows, status, rstream, rcursor, avail, rfail,
                   wfail, pc, ready, delivered, written, direct, lastHdr,
                   early, lastSend, peer, auxVars>>

\* reconnected(): reads and clears did_reconnect
Reconnected ==
    /\ pc = "idle"
    /\ res' = IF did_reconnect THEN "true" ELSE "false"
    /\ did_reconnect' = FALSE
    /\ op' = "reconnected"
    /\ UNCHANGED <<state, header, count, queue, buffer, xconf,
                   present_windows, status, rstream, rcursor, avail, sent,
                   space, rfail, wfail, pc, ready, histVars, auxVars>>

\* a mutant of reconnect: the queue and the buffer are kept
reconnect_keeps(q, b) == [queue |-> q, buffer |-> b, state |-> "Connecting"]

\* a mutant of reconnect: the new connection is taken to be negotiated
reconnect_skips(q, b) == [queue |-> << >>, buffer |-> << >>, state |-> "ReadingHeader"]

\* what reconnect makes of the queue, the buffer and the state
reconnect(q, b) == [queue |-> << >>, buffer |-> << >>, state |-> "Connecting"]

\* what the daemon sends on a connection made by reconnect
ConnPeers == {<<CursorMsg>>, <<UnknownMsg, UnknownMsg>>}

\* reconnect(): the old vchan is dropped and a new server vchan made, the
\* queue and the buffer are cleared, the state is Connecting, and the
\* version word is sent on the new vchan at once; sendFails: that send
\* returns an error.  The new vchan waits for the daemon, which will send
\* its configuration, with the version word ver, and then the messages of p.
ReconnectTo(ver, p, sendFails) ==
    /\ pc = "idle"
    /\ status' = "Waiting"
    /\ peer' = p
    /\ rstream' = XConfOf(ver) \o Wire(p)
    /\ rcursor' = 0
    /\ avail' = 0
    /\ space' = MaxSpace
    /\ rfail' = FALSE
    /\ wfail' = sendFails
    /\ queue' = reconnect(queue, buffer).queue
    /\ buffer' = reconnect(queue, buffer).buffer
    /\ state' = reconnect(queue, buffer).state
    /\ dropped' = IF queue # << >> /\ buffer # << >>
                     /\ state \in {"Error", "ReadingBody", "Discard"}
                  THEN state ELSE "clean"
    /\ header' = NoHeader
    /\ count' = 0
    /\ sent' = IF sendFails THEN << >> ELSE LE4(RECONNECT_VERSION)
    /\ res' = IF sendFails THEN "io" ELSE "ok"
    /\ op' = "reconnect"
    /\ delivered' = << >>
    /\ written' = << >>
    /\ direct' = Len(sent')
    /\ lastHdr' = NoHdr
    /\ ioerr' = sendFails
    /\ early' = 0
    /\ lastSend' = NoSend
    /\ UNCHANGED <<did_reconnect, xconf, present_windows, pc, ready, waited,
                   dmn, gnt, probe>>

\* reconnect() to a daemon that answers with the agent's own version
Reconnect(p, sendFails) == ReconnectTo(PROTOCOL_VERSION, p, sendFails)

\* Client::send_raw on an agent: the window checks, then the header and
\* the body in two write calls; failBody: the vchan starts to fail between
\* the two.  A failed check aborts the process.
SendRaw(ty, window, body, failBody) ==
    /\ pc = "idle"
    /\ Len(written) + SizeOfHeader + Len(body) <= MaxSends * (SizeOfHeader + MaxBuf)
    /\ LET h == [ty |-> ty, window |-> window, untrusted_len |-> Len(body)]
           checked == CASE ty = MSG_CREATE -> window \notin present_windows
                        [] ty = MSG_DESTROY -> window \in present_windows
                        [] OTHER -> window \in present_windows
           w1 == write(queue, sent, space, wfail, HeaderBytes(h))
           w2 == write(w1.queue, w1.sent, w1.space, wfail \/ failBody, body)
           w == IF w1.r = "err" THEN w1 ELSE w2
           onWire == Len(w.sent) - Len(sent) - Len(queue)
       IN  IF ~checked
           THEN /\ pc' = "panic"
                /\ res' = "panic"
                /\ UNCHANGED <<queue, sent, space, wfail, present_windows,
                               written, ioerr, lastSend>>
           ELSE /\ present_windows' =
                       CASE ty = MSG_CREATE -> present_windows \cup {window}
                         [] ty = MSG_DESTROY -> present_windows \ {window}
                         [] OTHER -> present_windows
                /\ queue' = w.queue
                /\ sent' = w.sent
                /\ space' = w.space
                /\ wfail' = IF w1.r = "err" THEN wfail ELSE (wfail \/ failBody)
                /\ res' = IF w.r = "err" THEN "io" ELSE "ok"
                /\ ioerr' = (ioerr \/ w.r = "err")
                /\ written' = IF w1.r = "err"
                              THEN written \o HeaderBytes(h)
                              ELSE written \o HeaderBytes(h) \o body
                /\ lastSend' = [hdr |-> Min(SizeOfHeader, Max(0, onWire)),
                                body |-> w1.r = "ok" /\ w2.r = "ok",
                                len |-> Len(body)]
                /\ pc' = pc
    /\ early' = IF Handshaking THEN Len(written') ELSE early
    /\ op' = "send_raw"
    /\ UNCHANGED <<state, header, count, buffer, did_reconnect, xconf,
                   status, rstream, rcursor, avail, rfail, ready, delivered,
                   direct, lastHdr, peer, auxVars>>

----------------------------------------------------------------------------
(* The environment: the peer and the vchan *)

Env == op' = "env" /\ res' = "-"

\* k more bytes of the peer's stream become ready
Arrive(k) ==
    /\ status = "Connected"
    /\ k \in 1..(Len(rstream) - rcursor - avail)
    /\ avail' = avail + k
    /\ Env
    /\ UNCHANGED <<streamVars, present_windows, status, rstream, rcursor,
                   sent, space, rfail, wfail, pc, ready, histVars, auxVars>>

\* the most bytes the vchan's ring takes: a header and MaxSpace bytes
RingSize == SizeOfHeader + MaxSpace

\* buffer_space becomes k: the peer has read, or the test says so
SetSpace(k) ==
    /\ k \in 0..RingSize
    /\ k # space
    /\ space' = k
    /\ Env
    /\ UNCHANGED <<streamVars, present_windows, status, rstream, rcursor,
                   avail, sent, rfail, wfail, pc, ready, histVars, auxVars>>

\* the peer reads k bytes of what was sent: buffer_space grows by k
PeerRead(k) ==
    /\ k \in 1..(MaxSpace - space)
    /\ space' = space + k
    /\ Env
    /\ UNCHANGED <<streamVars, present_windows, status, rstream, rcursor,
                   avail, sent, rfail, wfail, pc, ready, histVars, auxVars>>

\* the daemon connects to the waiting vchan
Connect ==
    /\ status = "Waiting"
    /\ status' = "Connected"
    /\ Env
    /\ UNCHANGED <<streamVars, present_windows, rstream, rcursor, avail,
                   sent, space, rfail, wfail, pc, ready, histVars, auxVars>>

\* the daemon goes away
Disconnect ==
    /\ status = "Connected"
    /\ status' = "Disconnected"
    /\ Env
    /\ UNCHANGED <<streamVars, present_windows, rstream, rcursor, avail,
                   sent, space, rfail, wfail, pc, ready, histVars, auxVars>>

\* from now on the vchan's read call returns an error
BreakRead ==
    /\ ~rfail
    /\ rfail' = TRUE
    /\ Env
    /\ UNCHANGED <<streamVars, present_windows, status, rstream, rcursor,
                   avail, sent, space, wfail, pc, ready, histVars, auxVars>>

\* from now on the vchan's send call returns an error
BreakWrite ==
    /\ ~wfail
    /\ wfail' = TRUE
    /\ Env
    /\ UNCHANGED <<streamVars, present_windows, status, rstream, rcursor,
                   avail, sent, space, rfail, pc, ready, histVars, auxVars>>

----------------------------------------------------------------------------
(* The reader alone: the peer's stream arrives in chunks *)

NextRead ==
    \/ ReadMessage
    \/ Resume
    \/ \E k \in 1..(MaxMsgs * (SizeOfHeader + 5)) : Arrive(k)

SpecRead == InitRead /\ [][NextRead]_vars

----------------------------------------------------------------------------
(* Claims about the reader *)

AllIn(msgs, S) == \A i \in 1..Len(msgs) : msgs[i] \in S

\* the reader is at a message boundary with the whole stream consumed
AllRead == rcursor = Len(rstream) /\ pc = "idle" /\ state = "ReadingHeader"

\* C1: for a stream of valid messages of known kinds, however it arrives in
\* chunks, read_message returns the messages of the stream in order and
\* byte for byte: what was returned so far is a prefix of the stream's
\* messages, no call fails, and it is all of them once the stream is read
C1_FramingRobust ==
    AllIn(peer, {CloseMsg, CursorMsg}) =>
        /\ IsPrefix(delivered, peer)
        /\ res \notin ErrorResults
        /\ AllRead => delivered = peer

\* C2: an unknown kind announcing n bytes has exactly n bytes discarded,
\* gives neither an error nor a message, and the message after it is parsed
\* correctly, however the bytes arrive; checked on streams whose known
\* messages have no body
C2_UnknownSkipped ==
    AllIn(peer, {UnknownMsg, ResizeMsg, CloseMsg}) =>
        /\ IsPrefix(delivered, Expected(peer))
        /\ res \notin ErrorResults
        /\ AllRead => delivered = Expected(peer)

\* the last header read is of a known kind and its length is out of range
BadLength ==
    /\ lastHdr # NoHdr
    /\ msg_length_limits(lastHdr.h.ty) # None
    /\ \/ lastHdr.h.untrusted_len < msg_length_limits(lastHdr.h.ty).lo
       \/ lastHdr.h.untrusted_len > msg_length_limits(lastHdr.h.ty).hi

\* C3: once a header of a known kind announces a length outside the kind's
\* range, the stream is in Error, no byte after that header has been read,
\* no message has been returned since, and every read_message call fails
C3_BadLengthIsError ==
    BadLength =>
        /\ state = "Error"
        /\ rcursor = lastHdr.end
        /\ Len(delivered) = lastHdr.ndel
        /\ op = "read_message" => res \in ErrorResults

\* a later read_message call on a stream that a MOTION of 5 bytes broke
C3_Witness ==
    /\ lastHdr.h = BadMotionMsg.h
    /\ state = "Error"
    /\ avail > 0
    /\ op = "read_message"
    /\ res = "already"

\* C11: no read_message call waits inside a vchan call for the peer to
\* send data: every call returns with what is ready (a write call is one
\* step of the model and never waits).
C11_NeverWaitsForPeer == pc # "recv"

----------------------------------------------------------------------------
(* The writer: writes, flushes and reads against a vchan whose buffer     *)
(* space changes at will; the peer sends one CLOSE.                        *)

InitWrite ==
    /\ InitAgent
    /\ peer = <<CloseMsg>>
    /\ rstream = Wire(peer)

NextWrite ==
    \/ \E len \in 0..MaxBuf : Write(len)
    \/ Flush
    \/ ReadMessage
    \/ \E k \in 0..MaxSpace : SetSpace(k)
    \/ Arrive(SizeOfHeader)

SpecWrite == InitWrite /\ [][NextWrite]_vars

\* C4: with no vchan error, the bytes handed to the vchan, followed by the
\* bytes left in the write queue, are the buffers passed to write, in call
\* order: nothing is dropped, duplicated or reordered
C4_NoByteLost ==
    ~ioerr => Drop(sent, direct) \o queue = written

\* a read_message call has flushed a part of what the writes had queued
C4_Witness ==
    /\ op = "read_message"
    /\ Len(written) >= 3
    /\ queue # << >>
    /\ Len(sent) > direct + 1
    /\ space = 0

----------------------------------------------------------------------------
(* The connection: vchan errors, disconnects and reconnects *)

InitConn ==
    /\ InitAgent
    /\ peer \in ConnPeers
    /\ rstream = Wire(peer)

NextConn ==
    \/ ReadMessage
    \/ Resume
    \/ Write(MaxBuf)
    \/ \E p \in ConnPeers, f \in BOOLEAN : Reconnect(p, f)
    \/ \E k \in {3, SizeOfHeader, SIZE_OF_XCONF} : Arrive(k)
    \/ \E k \in {0, MaxSpace} : SetSpace(k)
    \/ Reconnected
    \/ Connect
    \/ Disconnect

SpecConn == InitConn /\ [][NextConn]_vars


Active == {"ReadingHeader", "ReadingBody", "Discard"}

C9_QueuedUntilReadingHeader ==
    [][(Handshaking /\ op' = "write" /\ ~wfail)
        => (res' = "ok" /\ sent' = sent)]_vars

\* C9, amended: during Connecting and the negotiation a write call whose
\* vchan sends succeed is accepted and leaves the state unchanged; it hands
\* to the vchan, in order, as many of the queued and the new bytes as
\* buffer_space allows, and queues the rest.
C9_WriteWhileHandshaking ==
    [][(Handshaking /\ op' = "write" /\ ~wfail)
        => /\ res' = "ok"
           /\ state' = state
           /\ IsPrefix(sent, sent')
           /\ Len(sent') - Len(sent) <= space
           /\ Drop(sent', Len(sent)) \o queue'
                 = queue \o Drop(written', Len(written))]_vars

C9_Witness ==
    /\ Handshaking
    /\ op = "write"
    /\ res = "ok"
    /\ Len(sent) > direct
    /\ queue # << >>

\* C17: a reconnected() call made after reconnect() and before the
\* handshake of the new connection has completed returns false.
C17_NoFlagBeforeHandshake ==
    [][(op' = "reconnected" /\ Handshaking) => res' = "false"]_vars

\* the bytes received so far on this connection
Received == {rstream[k] : k \in 1..rcursor}

\* C16: a successful reconnect leaves the queue and the buffer empty and
\* the state Connecting, whatever the state was; on the connection it
\* made, what is sent and queued is the version word and what was written
\* since, and the buffer holds only bytes received on it (or the zeros of
\* resize).
C16_ReconnectStartsClean ==
    /\ [][(op' = "reconnect" /\ res' = "ok")
            => /\ queue' = << >>
               /\ buffer' = << >>
               /\ state' = "Connecting"
               /\ sent' = LE4(RECONNECT_VERSION)]_vars
    /\ [](dropped # NoDropped =>
            /\ ~ioerr => sent \o queue = LE4(RECONNECT_VERSION) \o written
            /\ \A i \in DOMAIN buffer : buffer[i] = 0 \/ buffer[i] \in Received)

C16_Witness ==
    /\ dropped \in {"Error", "ReadingBody", "Discard"}
    /\ state = "ReadingHeader"
    /\ Len(sent) > direct
    /\ buffer # << >>

----------------------------------------------------------------------------
(* The vchan's calls fail *)

ErrPeers == {<<BadMotionMsg, CloseMsg>>, <<CursorMsg>>, <<UnknownMsg, UnknownMsg>>}

InitErr ==
    /\ InitAgent
    /\ peer \in ErrPeers
    /\ rstream = Wire(peer)

NextErr ==
    \/ ReadMessage
    \/ Resume
    \/ \E len \in 1..MaxBuf : Write(len)
    \/ \E k \in {3, SizeOfHeader} : Arrive(k)
    \/ \E k \in {0, MaxSpace} : SetSpace(k)
    \/ BreakRead
    \/ BreakWrite

SpecErr == InitErr /\ [][NextErr]_vars


\* C5: once the stream is in Error, every later read_message and write
\* call returns failure and the state stays Error.
C5_ErrorIsSticky ==
    [][(state = "Error" /\ op' \in {"read_message", "write"})
        => (res' \in ErrorResults /\ state' = "Error")]_vars

\* C6: a read_message or write call that returns an error because a vchan
\* call failed leaves the stream in Error.
C6_TransportErrorPoisons ==
    (op \in {"read_message", "write"} /\ res = "io") => state = "Error"

----------------------------------------------------------------------------
(* The client sends messages *)

\* the body of a message the client sends
SendBody(len) == [i \in 1..len |-> 200 + i]

NextSend ==
    \/ \E ty \in {MSG_CREATE, MSG_DESTROY, MSG_CLOSE}, len \in {0, MaxBuf},
          f \in BOOLEAN : SendRaw(ty, 1, SendBody(len), f)
    \/ \E k \in {0, MaxSpace, RingSize} : SetSpace(k)
    \/ ReadMessage
    \/ Arrive(SizeOfHeader)

SpecSend == InitWrite /\ [][NextSend]_vars

\* C8: after a send_raw call the vchan holds no header byte of a message
\* whose body the stream has not accepted (a message with no body bytes
\* is complete with its header).
C8_HeaderNeverWithoutBody ==
    (op = "send_raw" /\ lastSend.hdr > 0 /\ lastSend.len > 0) => lastSend.body

\* C19: a send_raw call that returns an error leaves the set of present
\* windows as it was, and a call whose window check fails aborts without
\* writing a byte.
C19_FailedSendKeepsWindows ==
    [][(op' = "send_raw")
        => /\ res' = "io" => present_windows' = present_windows
           /\ res' = "panic" => (sent' = sent /\ queue' = queue
                                    /\ present_windows' = present_windows)]_vars

----------------------------------------------------------------------------
(* The handshake of a new connection, with a peer that keeps reading *)

\* the state reconnect leaves: the version word is sent, the daemon has
\* not connected yet; it will send its configuration and a message
InitLive ==
    /\ state = "Connecting"
    /\ header = NoHeader
    /\ count = 0
    /\ queue = << >>
    /\ buffer = << >>
    /\ did_reconnect = FALSE
    /\ xconf = XConfBytes
    /\ present_windows = {}
    /\ status = "Waiting"
    /\ peer = <<CloseMsg>>
    /\ rstream = XConfBytes \o Wire(peer)
    /\ rcursor = 0
    /\ avail = 0
    /\ sent = LE4(RECONNECT_VERSION)
    /\ space = MaxSpace
    /\ rfail = FALSE
    /\ wfail = FALSE
    /\ pc = "idle"
    /\ ready = 0
    /\ op = "reconnect"
    /\ res = "ok"
    /\ delivered = << >>
    /\ written = << >>
    /\ direct = SizeOfU32
    /\ lastHdr = NoHdr
    /\ ioerr = FALSE
    /\ early = 0
    /\ lastSend = NoSend
    /\ waited = {}
    /\ dropped = NoDropped
    /\ dmn = NoDaemon
    /\ gnt = NoAllocator
    /\ probe = NoProbe

NextLive ==
    \/ ReadMessage
    \/ \E len \in 1..MaxBuf : Write(len)
    \/ \E k \in {SizeOfHeader, SIZE_OF_XCONF} : Arrive(k)
    \/ \E k \in 1..MaxSpace : PeerRead(k)
    \/ Connect

\* the caller's loop calls read_message after every vchan event, and the
\* peer keeps reading what it is sent
SpecLive ==
    /\ InitLive
    /\ [][NextLive]_vars
    /\ WF_vars(ReadMessage)
    /\ WF_vars(\E k \in 1..MaxSpace : PeerRead(k))

\* C10: once the handshake has completed, every byte written during
\* Connecting and the negotiation is eventually on the vchan, and what is
\* on the vchan is a prefix of what was written, in order.
C10_EarlyBytesReachVchan ==
    (state = "ReadingHeader")
        ~> (/\ Len(sent) - direct >= early
            /\ IsPrefix(Drop(sent, direct), written))

C10_Witness ==
    /\ state = "ReadingHeader"
    /\ early > MaxSpace
    /\ Len(sent) - direct >= early
    /\ Take(Drop(sent, direct), early) = Take(written, early)

----------------------------------------------------------------------------
(* The message length table, kind by kind *)

\* the kinds and the lengths the table is asked about
KindsProbed == 0..(MSG_CURSOR + MaxKindsBeyond) \cup {9999, 2147483647}
LensProbed == {0, SizeOfKeymapNotify, SizeOfWindowHints,
               MAX_CLIPBOARD_SIZE, MAX_CLIPBOARD_SIZE + 1}

InitLimits ==
    /\ InitStream
    /\ peer = << >>
    /\ rstream = << >>
    /\ gnt = NoAllocator
    /\ \E ty \in KindsProbed, len \in LensProbed :
          probe = [f |-> "arg", ty |-> ty, len |-> len]

\* msg_length_limits(ty), and the test the header arm makes with it
Limits ==
    /\ probe.f = "arg"
    /\ probe' = [f |-> "msg_length_limits", ty |-> probe.ty, len |-> probe.len,
                 limits |-> msg_length_limits(probe.ty),
                 accepted |-> /\ msg_length_limits(probe.ty) # None
                              /\ Contains(msg_length_limits(probe.ty), probe.len)]
    /\ op' = "msg_length_limits"
    /\ UNCHANGED <<streamVars, present_windows, status, rstream, rcursor,
                   avail, sent, space, rfail, wfail, pc, ready, res,
                   histVars, waited, dropped, dmn, gnt>>

NextLimits == Limits

SpecLimits == InitLimits /\ [][NextLimits]_vars

\* the table of the message kinds: body sizes of the kinds of exact length
TableExact ==
    (MSG_KEYPRESS :> 20) @@ (MSG_BUTTON :> 20) @@ (MSG_MOTION :> 16)
    @@ (MSG_CROSSING :> 28) @@ (MSG_FOCUS :> 12) @@ (MSG_CREATE :> 24)
    @@ (MSG_MAP :> 8) @@ (MSG_CONFIGURE :> 20) @@ (MSG_SHMIMAGE :> 16)
    @@ (MSG_SET_TITLE :> 128) @@ (MSG_KEYMAP_NOTIFY :> 32)
    @@ (MSG_WINDOW_HINTS :> 36) @@ (MSG_WINDOW_FLAGS :> 8)
    @@ (MSG_WINDOW_CLASS :> 128) @@ (MSG_CURSOR :> 4)

\* the kinds without a body
TableEmpty == {MSG_DESTROY, MSG_UNMAP, MSG_CLOSE, MSG_CLIPBOARD_REQ, MSG_DOCK}

\* the range the table gives for a kind, None for absence
TableLimits(ty) ==
    CASE ty \in DOMAIN TableExact -> [lo |-> TableExact[ty], hi |-> TableExact[ty]]
      [] ty \in TableEmpty -> [lo |-> 0, hi |-> 0]
      [] ty = MSG_CLIPBOARD_DATA -> [lo |-> 0, hi |-> 65000]
      [] ty = MSG_MFNDUMP -> [lo |-> 0, hi |-> 4 * MAX_MFN_COUNT]
      [] ty = MSG_WINDOW_DUMP -> [lo |-> 16, hi |-> 16 + 4 * MAX_GRANT_REFS_COUNT]
      [] OTHER -> None

\* C20: for every kind number msg_length_limits returns what the table
\* says: a non-empty range for each listed kind (36..36 for WINDOW_HINTS,
\* 0..65000 for CLIPBOARD_DATA), absence for RESIZE, EXECUTE and every
\* number that is not listed.
C20_LimitsMatchTable ==
    probe.f = "msg_length_limits" =>
        /\ probe.limits = TableLimits(probe.ty)
        /\ probe.limits # None => probe.limits.lo <= probe.limits.hi


----------------------------------------------------------------------------
(* Construction of an agent stream: RawMessageStream::agent step by step *)

\* where agent() can be: testing the status, in vchan.wait(), in the
\* blocking recv of the configuration
AgentPcs == {"agent_loop", "agent_wait", "agent_recv"}

\* agent() has made its server vchan: nobody is connected, the ring is
\* empty; the daemon will send its configuration and then its messages
NewAgent ==
    /\ state = "ReadingHeader"
    /\ header = NoHeader
    /\ count = 0
    /\ queue = << >>
    /\ buffer = << >>
    /\ did_reconnect = FALSE
    /\ xconf = [i \in 1..SIZE_OF_XCONF |-> 0]
    /\ present_windows = {}
    /\ status = "Waiting"
    /\ rcursor = 0
    /\ avail = 0
    /\ sent = << >>
    /\ rfail = FALSE
    /\ wfail = FALSE
    /\ pc = "agent_loop"
    /\ ready = 0
    /\ op = "agent"
    /\ res = "-"
    /\ delivered = << >>
    /\ written = << >>
    /\ direct = 0
    /\ lastHdr = NoHdr
    /\ ioerr = FALSE
    /\ early = 0
    /\ lastSend = NoSend
    /\ waited = {}
    /\ dropped = NoDropped
    /\ gnt = NoAllocator
    /\ probe = NoProbe

InitNew ==
    /\ NewAgent
    /\ peer \in ConnPeers
    /\ \E ver \in DaemonVersions : rstream = XConfOf(ver) \o Wire(peer)
    /\ space = RingSize
    /\ dmn = NoDaemon

\* one turn of agent()'s loop on vchan.status(): Waiting calls the vchan's
\* wait(); Disconnected returns an error; Connected leaves the loop, makes
\* the stream, writes the version word and flushes
AgentStatus ==
    /\ pc = "agent_loop"
    /\ op' = "agent"
    /\ CASE status = "Waiting" ->
              /\ pc' = "agent_wait"
              /\ waited' = waited \cup {"agent"}
              /\ res' = "-"
              /\ UNCHANGED <<queue, sent, space, direct, ioerr>>
         [] status = "Disconnected" ->
              /\ pc' = "failed"
              /\ res' = "refused"
              /\ UNCHANGED <<queue, sent, space, direct, ioerr, waited>>
         [] status = "Connected" ->
              LET w == write(queue, sent, space, wfail, LE4(PROTOCOL_VERSION))
                  f == IF w.r = "err" THEN w
                       ELSE flush_pending_writes(w.queue, w.sent, w.space, wfail)
              IN  /\ queue' = f.queue
                  /\ sent' = f.sent
                  /\ space' = f.space
                  /\ direct' = SizeOfU32
                  /\ ioerr' = (f.r = "err")
                  /\ pc' = IF f.r = "err" THEN "failed" ELSE "agent_recv"
                  /\ res' = IF f.r = "err" THEN "io" ELSE "-"
                  /\ UNCHANGED waited
    /\ UNCHANGED <<state, header, count, buffer, did_reconnect, xconf,
                   present_windows, status, rstream, rcursor, avail, rfail,
                   wfail, ready, delivered, written, lastHdr, early, lastSend,
                   peer, dropped, dmn, gnt,
                   probe>>

\* the vchan's wait() returns to agent()'s loop
AgentWake ==
    /\ pc = "agent_wait"
    /\ pc' = "agent_loop"
    /\ UNCHANGED <<streamVars, present_windows, status, rstream, rcursor,
                   avail, sent, space, rfail, wfail, ready, op, res, histVars,
                   auxVars>>

\* agent()'s recv of the configuration: libvchan_recv returns when all of
\* XConfVersion is there, or fails; agent() then returns the stream
AgentRecv ==
    /\ pc = "agent_recv"
    /\ op' = "agent"
    /\ IF rfail \/ (status = "Disconnected" /\ avail < SIZE_OF_XCONF)
       THEN /\ pc' = "failed"
            /\ res' = "io"
            /\ UNCHANGED <<xconf, rcursor, avail>>
       ELSE /\ avail >= SIZE_OF_XCONF
            /\ xconf' = SubSeq(rstream, rcursor + 1, rcursor + SIZE_OF_XCONF)
            /\ rcursor' = rcursor + SIZE_OF_XCONF
            /\ avail' = avail - SIZE_OF_XCONF
            /\ pc' = "idle"
            /\ res' = "ok"
    /\ UNCHANGED <<state, header, count, queue, buffer, did_reconnect,
                   present_windows, status, rstream, sent, space, rfail, wfail,
                   ready, histVars, auxVars>>

\* RawMessageStream::wait: the caller acknowledges an event on the vchan
Wait ==
    /\ pc = "idle"
    /\ waited' = waited \cup {"wait"}
    /\ op' = "wait"
    /\ res' = "-"
    /\ UNCHANGED <<streamVars, present_windows, status, rstream, rcursor,
                   avail, sent, space, rfail, wfail, pc, ready, histVars,
                   dropped, dmn, gnt, probe>>

NextAgent ==
    \/ AgentStatus
    \/ AgentWake
    \/ AgentRecv
    \/ Wait
    \/ ReadMessage
    \/ Resume
    \/ Write(MaxBuf)
    \/ Reconnected
    \/ \E ver \in DaemonVersions : ReconnectTo(ver, <<CursorMsg>>, FALSE)
    \/ \E k \in {3, SizeOfHeader, SIZE_OF_XCONF} : Arrive(k)
    \/ Connect
    \/ Disconnect

SpecAgent == InitNew /\ [][NextAgent]_vars

\* C13: the vchan's wait() is called by the stream's wait operation only:
\* not by agent(), reconnect, write or read_message.
C13_WaitOnlyByCaller == waited \subseteq {"wait"}

\* the version word the daemon sent with its configuration on this
\* connection, once the stream has read the configuration
NegotiatedWith(ver) ==
    /\ pc \notin AgentPcs \cup {"failed"}
    /\ state \notin {"Connecting", "ReadingXConf"}
    /\ rcursor >= SIZE_OF_XCONF
    /\ FromLE4(Take(rstream, SizeOfU32)) = ver

\* C15: a stream that has received a version word of another major is in
\* Error: it is never in ReadingHeader, ReadingBody or Discard on that
\* connection.
C15_OtherMajorIsError ==
    \A ver \in DaemonVersions :
        (NegotiatedWith(ver) /\ Major(ver) # Major(PROTOCOL_VERSION))
            => state = "Error"

\* C18: when agent() returns the stream, the daemon's configuration is
\* stored, the state is ReadingHeader and the reconnected flag is raised.
C18_InitialHandshakeRaisesFlag ==
    (op = "agent" /\ res = "ok")
        => /\ xconf = Take(rstream, SIZE_OF_XCONF)
           /\ state = "ReadingHeader"
           /\ did_reconnect


----------------------------------------------------------------------------
(* A daemon-role stream: RawMessageStream::daemon, then its operations *)

\* the version words an agent announces: agent() sends PROTOCOL_VERSION,
\* reconnect() sends (1 << 16) | 3
AgentVersions == {PROTOCOL_VERSION, RECONNECT_VERSION}

\* daemon(domain, xconf) has made its client vchan and returned the stream:
\* ReadingHeader, nothing sent; the agent at the other end sends its
\* version word and then its messages
InitDaemon ==
    /\ state = "ReadingHeader"
    /\ header = NoHeader
    /\ count = 0
    /\ queue = << >>
    /\ buffer = << >>
    /\ did_reconnect = FALSE
    /\ xconf = XConfBytes
    /\ present_windows = {}
    /\ status = "Connected"
    /\ peer \in ConnPeers
    /\ \E ver \in AgentVersions : rstream = LE4(ver) \o Wire(peer)
    /\ rcursor = 0
    /\ avail = 0
    /\ sent = << >>
    /\ space = RingSize
    /\ rfail = FALSE
    /\ wfail = FALSE
    /\ pc = "idle"
    /\ ready = 0
    /\ op = "daemon"
    /\ res = "ok"
    /\ delivered = << >>
    /\ written = << >>
    /\ direct = 0
    /\ lastHdr = NoHdr
    /\ ioerr = FALSE
    /\ early = 0
    /\ lastSend = NoSend
    /\ waited = {}
    /\ dropped = NoDropped
    /\ dmn = NoDaemon
    /\ gnt = NoAllocator
    /\ probe = NoProbe

NextDaemon ==
    \/ ReadMessage
    \/ Resume
    \/ \E len \in 1..MaxBuf : Write(len)
    \/ Wait
    \/ \E k \in {3, SizeOfU32, SizeOfHeader} : Arrive(k)
    \/ \E k \in {0, MaxSpace} : SetSpace(k)

SpecDaemon == InitDaemon /\ [][NextDaemon]_vars

Minor(ver) == ver % 65536
\* the version a daemon of PROTOCOL_VERSION agrees with an agent of ver
Agreed(ver) ==
    65536 * Major(ver) + Min(Minor(ver), Minor(PROTOCOL_VERSION))
\* what the daemon is to send in reply: the agreed version and the
\* configuration, or the configuration block alone below minor 4
Reply(ver) ==
    IF Minor(Agreed(ver)) >= 4
    THEN LE4(Agreed(ver)) \o Drop(xconf, SizeOfU32)
    ELSE Drop(xconf, SizeOfU32)

\* C14: a daemon stream that has read the agent's version word, of its own
\* major, has sent its reply before anything else: the agreed version and
\* the configuration, or the legacy block alone when the agreed minor is
\* below 4.
C14_DaemonReplies ==
    \A ver \in AgentVersions :
        (/\ rcursor >= SizeOfU32
         /\ FromLE4(Take(rstream, SizeOfU32)) = ver
         /\ Major(ver) = Major(PROTOCOL_VERSION))
            => IsPrefix(Reply(ver), sent \o queue)


\* C22: a daemon-role stream that has read a header of an unknown message
\* type is in Error: it does not ignore the message.
C22_DaemonRejectsUnknown ==
    (lastHdr.end > 0 /\ msg_length_limits(lastHdr.h.ty) = None)
        => state = "Error"

----------------------------------------------------------------------------
(* The two streams together: an agent stream and a daemon stream joined   *)
(* by the two rings of one vchan.  The agent's stream is in the module's  *)
(* variables, the daemon's in dmn; what one has sent is the other's       *)
(* inbound stream, and a ring holds SysCap bytes.                         *)

\* a ring holds the configuration and MaxSpace bytes more
SysCap == SIZE_OF_XCONF + MaxSpace

\* CLOSE for window 5
CloseFiveMsg == Message(MSG_CLOSE, 5, 0, << >>)
\* KEYPRESS, whose 20 bytes of body end in the words 9999, 1, 5
KeypressMsg ==
    Message(MSG_KEYPRESS, 1, SizeOfKeypress,
            <<1, 1, 1, 1, 1, 1, 1, 1>> \o LE4(9999) \o LE4(1) \o LE4(5))
\* the messages either side writes
SysMsgs == {CursorMsg, CloseFiveMsg, KeypressMsg}

\* the stream daemon() returns, in state st ("none": not made yet)
DaemonStream(st) ==
    [state |-> st, header |-> NoHeader, count |-> 0, queue |-> << >>,
     buffer |-> << >>, did_reconnect |-> FALSE, xconf |-> XConfBytes,
     sent |-> << >>, rcursor |-> 0, pc |-> "idle", ready |-> 0,
     delivered |-> << >>, lastHdr |-> NoHdr, ioerr |-> FALSE]

\* agent() has made its server vchan; the daemon has not started
InitSys ==
    /\ NewAgent
    /\ peer = << >>
    /\ rstream = << >>
    /\ space = SysCap
    /\ dmn = DaemonStream("none")

\* bytes of the agent's that are in the ring to the daemon
DaemonAvail == Len(sent) - dmn.rcursor
\* room in the ring from the daemon to the agent
DaemonSpace == SysCap - avail

\* daemon(domain, xconf): the client vchan connects to the agent's
DaemonNew ==
    /\ dmn.state = "none"
    /\ status = "Waiting"
    /\ status' = "Connected"
    /\ dmn' = DaemonStream("ReadingHeader")
    /\ UNCHANGED <<streamVars, present_windows, rstream, rcursor, avail, sent,
                   space, rfail, wfail, pc, ready, op, res, histVars, waited,
                   dropped, gnt, probe>>

\* the daemon's stream and the locals of its read_message call
DaemonMachine(rdy) ==
    [state |-> dmn.state, header |-> dmn.header, count |-> dmn.count,
     buffer |-> dmn.buffer, xconf |-> dmn.xconf,
     did_reconnect |-> dmn.did_reconnect, ready |-> rdy,
     rstream |-> sent, rcursor |-> dmn.rcursor, avail |-> DaemonAvail,
     out |-> "run", lastHdr |-> dmn.lastHdr, delivered |-> dmn.delivered,
     ioerr |-> dmn.ioerr]

\* what a read_message call of the daemon's leaves: f is its flush, m the
\* end of its loop; the bytes it sent are ready at the agent, the bytes it
\* received are room in the agent's ring
DaemonLeave(f, m) ==
    /\ dmn' = [dmn EXCEPT !.state = m.state, !.header = m.header,
                          !.count = m.count, !.buffer = m.buffer,
                          !.xconf = m.xconf,
                          !.did_reconnect = m.did_reconnect,
                          !.rcursor = m.rcursor, !.lastHdr = m.lastHdr,
                          !.delivered = m.delivered, !.ioerr = m.ioerr,
                          !.ready = IF m.out = "block" THEN m.ready ELSE 0,
                          !.pc = IF m.out = "block" THEN "recv" ELSE "idle",
                          !.queue = f.queue, !.sent = f.sent]
    /\ rstream' = f.sent
    /\ avail' = avail + (Len(f.sent) - Len(dmn.sent))
    /\ space' = space + (m.rcursor - dmn.rcursor)
    /\ UNCHANGED <<streamVars, present_windows, status, rcursor, sent, rfail,
                   wfail, pc, ready, op, res, histVars, waited, dropped, gnt,
                   probe>>

\* read_message on the daemon's stream
DaemonRead ==
    /\ dmn.state # "none"
    /\ dmn.pc = "idle"
    /\ \E f \in {flush_pending_writes(dmn.queue, dmn.sent, DaemonSpace, FALSE)},
          m \in {Loop(DaemonMachine(DaemonAvail))} : DaemonLeave(f, m)

\* the recv the daemon's read_message blocked in returns
DaemonResume ==
    /\ dmn.pc = "recv"
    /\ DaemonAvail > 0
    /\ \E m \in {Loop(DaemonMachine(dmn.ready))} :
          DaemonLeave([queue |-> dmn.queue, sent |-> dmn.sent], m)

\* the daemon writes the message msg; peer is what it has written
DaemonWrite(msg) ==
    /\ dmn.state # "none"
    /\ dmn.pc = "idle"
    /\ Len(peer) < MaxSends
    /\ LET w == write(dmn.queue, dmn.sent, DaemonSpace, FALSE, Wire(<<msg>>))
       IN  /\ dmn' = [dmn EXCEPT !.queue = w.queue, !.sent = w.sent]
           /\ rstream' = w.sent
           /\ avail' = avail + (Len(w.sent) - Len(dmn.sent))
    /\ peer' = Append(peer, msg)
    /\ UNCHANGED <<streamVars, present_windows, status, rcursor, sent, space,
                   rfail, wfail, pc, ready, op, res, delivered, written,
                   direct, lastHdr, ioerr, early, lastSend, waited, dropped,
                   gnt, probe>>

RECURSIVE Unwire(_)
\* the messages whose bytes are bytes
Unwire(bytes) ==
    IF Len(bytes) < SizeOfHeader THEN << >>
    ELSE LET h == HeaderFromBytes(Take(bytes, SizeOfHeader))
             end == SizeOfHeader + h.untrusted_len
         IN  <<[h |-> h, body |-> SubSeq(bytes, SizeOfHeader + 1, end)]>>
                 \o Unwire(Drop(bytes, end))

\* the messages the agent has written
AgentWritten == Unwire(written)

\* the agent writes the message msg
AgentWrite(msg) ==
    /\ Len(AgentWritten) < MaxSends
    /\ SendRawBytes(msg)

NextSys ==
    \/ AgentStatus
    \/ AgentWake
    \/ AgentRecv
    \/ DaemonNew
    \/ ReadMessage
    \/ Resume
    \/ \E msg \in SysMsgs : AgentWrite(msg)
    \/ DaemonRead
    \/ DaemonResume
    \/ \E msg \in SysMsgs : DaemonWrite(msg)

\* both programs run: the constructors go on, and each event loop calls
\* read_message again after every event; nobody is obliged to write
SpecSys ==
    /\ InitSys
    /\ [][NextSys]_vars
    /\ WF_vars(AgentStatus) /\ WF_vars(AgentWake) /\ WF_vars(AgentRecv)
    /\ WF_vars(DaemonNew)
    /\ WF_vars(ReadMessage) /\ WF_vars(Resume)
    /\ WF_vars(DaemonRead) /\ WF_vars(DaemonResume)

\* the first n messages of msgs that a reader is to return are the
\* first n of got
Returned(msgs, got, n) ==
    /\ Len(got) >= n
    /\ Len(Expected(msgs)) >= n
    /\ Take(got, n) = Take(Expected(msgs), n)

\* C12: the two streams do not deadlock: under fairness of both event
\* loops every message written by one side is eventually returned by
\* read_message on the other side.
C12_EveryMessageReturned ==
    \A n \in 1..MaxSends :
        /\ (Len(Expected(AgentWritten)) >= n)
              ~> Returned(AgentWritten, dmn.delivered, n)
        /\ (Len(Expected(peer)) >= n)
              ~> Returned(peer, delivered, n)


----------------------------------------------------------------------------
(* The Message trait: body types and their kinds, sent by Client::send *)

SizeOfShmCmd == 7 * SizeOfU32

\* impl_message!: each body type with its KIND and its size_of
MessageTypes ==
    {[T |-> "MapInfo", KIND |-> MSG_MAP, size |-> SizeOfMapInfo],
     [T |-> "Create", KIND |-> MSG_CREATE, size |-> SizeOfCreate],
     [T |-> "Keypress", KIND |-> MSG_KEYPRESS, size |-> SizeOfKeypress],
     [T |-> "Button", KIND |-> MSG_BUTTON, size |-> SizeOfButton],
     [T |-> "Motion", KIND |-> MSG_MOTION, size |-> SizeOfMotion],
     [T |-> "Crossing", KIND |-> MSG_CROSSING, size |-> SizeOfCrossing],
     [T |-> "Configure", KIND |-> MSG_CONFIGURE, size |-> SizeOfConfigure],
     [T |-> "ShmImage", KIND |-> MSG_SHMIMAGE, size |-> SizeOfShmImage],
     [T |-> "Focus", KIND |-> MSG_FOCUS, size |-> SizeOfFocus],
     [T |-> "WMName", KIND |-> MSG_SET_TITLE, size |-> SizeOfWMName],
     [T |-> "KeymapNotify", KIND |-> MSG_KEYMAP_NOTIFY, size |-> SizeOfKeymapNotify],
     [T |-> "WindowHints", KIND |-> MSG_WINDOW_HINTS, size |-> SizeOfWindowHints],
     [T |-> "WindowFlags", KIND |-> MSG_WINDOW_FLAGS, size |-> SizeOfWindowFlags],
     [T |-> "ShmCmd", KIND |-> MSG_SHMIMAGE, size |-> SizeOfShmCmd],
     [T |-> "WMClass", KIND |-> MSG_WINDOW_CLASS, size |-> SizeOfWMClass],
     [T |-> "WindowDumpHeader", KIND |-> MSG_WINDOW_DUMP, size |-> SizeOfWindowDumpHeader],
     [T |-> "Cursor", KIND |-> MSG_CURSOR, size |-> SizeOfCursor],
     [T |-> "Destroy", KIND |-> MSG_DESTROY, size |-> 0],
     [T |-> "Dock", KIND |-> MSG_DOCK, size |-> 0],
     [T |-> "Unmap", KIND |-> MSG_UNMAP, size |-> 0]}

\* what Client::send(&T::default(), window) puts on the wire: the header
\* with ty = T::KIND and untrusted_len = size_of::<T>(), then the bytes of T
SendOf(t, window) ==
    Message(t.KIND, window, t.size, [i \in 1..t.size |-> 0])

\* the peer has sent one message with Client::send
InitTyped ==
    /\ InitAgent
    /\ \E t \in MessageTypes : peer = <<SendOf(t, 1)>>
    /\ rstream = Wire(peer)

NextTyped ==
    \/ ReadMessage
    \/ \E k \in {1, SizeOfHeader, SizeOfWMName} : Arrive(k)

SpecTyped == InitTyped /\ [][NextTyped]_vars

\* C21: a message built by send<T> carries the kind of T and a length
\* within the limits of that kind: the reader that has read its header
\* neither rejects it (Error) nor skips it (Discard).
C21_TypedMessageAccepted ==
    rcursor >= SizeOfHeader => state \notin {"Error", "Discard"}


----------------------------------------------------------------------------
(* Window dimensions and grant counts: qubes-gui-gntalloc's               *)
(* WindowDimensions and the arithmetic of the client's alloc_buffer       *)

\* 2^30: a u32 product of pixels times 4 wraps when the pixels reach it
PixelWrap == 1073741824

\* WindowDimensions::new: too large, zero, or accepted
new(width, height) ==
    IF width > MAX_WINDOW_WIDTH \/ height > MAX_WINDOW_HEIGHT THEN "toolarge"
    ELSE IF width = 0 \/ height = 0 THEN "zero"
    ELSE "ok"

\* buffer_size: (width * height * 4) in u32, which is 4 * (width * height
\* mod 2^30)
buffer_size(width, height) == 4 * ((width * height) % PixelWrap)

\* a mutant of grefs: the last, partial page is not counted
grefs_floor(width, height) == buffer_size(width, height) \div XC_PAGE_SIZE

\* grefs: (buffer_size + XC_PAGE_SIZE - 1) / XC_PAGE_SIZE in u32; the sum
\* stays below 2^31 for every pair of dimensions up to 16385
grefs(width, height) ==
    (buffer_size(width, height) + XC_PAGE_SIZE - 1) \div XC_PAGE_SIZE

\* the client's Agent::alloc_buffer: pixels, rounded up to whole grants
pixels_per_gref == XC_PAGE_SIZE \div 4
client_grefs(width, height) ==
    (width * height + (pixels_per_gref - 1)) \div pixels_per_gref

\* the dimensions probed in a range 1..max: zero, the first and the last
\* MaxDim, one beyond, and the sizes around one page of pixels
DimsProbed(max) ==
    {0} \cup (1..MaxDim) \cup {1023, 1024, 1025} \cup ((max - MaxDim)..(max + 1))

InitDims ==
    /\ InitStream
    /\ peer = << >>
    /\ rstream = << >>
    /\ gnt = NoAllocator
    /\ \E w \in DimsProbed(MAX_WINDOW_WIDTH), h \in DimsProbed(MAX_WINDOW_HEIGHT) :
          probe = [f |-> "arg", width |-> w, height |-> h]

\* WindowDimensions::new(width, height)
New ==
    /\ probe.f = "arg"
    /\ probe' = [f |-> "new", width |-> probe.width, height |-> probe.height,
                 r |-> new(probe.width, probe.height)]
    /\ op' = "new"
    /\ UNCHANGED <<streamVars, present_windows, status, rstream, rcursor,
                   avail, sent, space, rfail, wfail, pc, ready, res,
                   histVars, waited, dropped, dmn, gnt>>

\* buffer_size() and grefs() of accepted dimensions, and the client's count
Grefs ==
    /\ probe.f = "new"
    /\ probe.r = "ok"
    /\ probe' = [f |-> "grefs", width |-> probe.width, height |-> probe.height,
                 size |-> buffer_size(probe.width, probe.height),
                 grefs |-> grefs(probe.width, probe.height),
                 client |-> client_grefs(probe.width, probe.height)]
    /\ op' = "grefs"
    /\ UNCHANGED <<streamVars, present_windows, status, rstream, rcursor,
                   avail, sent, space, rfail, wfail, pc, ready, res,
                   histVars, waited, dropped, dmn, gnt>>

NextDims == New \/ Grefs

SpecDims == InitDims /\ [][NextDims]_vars

\* C23: dimensions are accepted exactly when 0 < w <= MAX_WIDTH and
\* 0 < h <= MAX_HEIGHT; for accepted dimensions the byte size is 4*w*h,
\* not wrapped, also after adding PAGE_SIZE - 1; the grant count is
\* 4*w*h / 4096 rounded up, in both crates; it never exceeds MAX_GRANTS
\* and equals it at (MAX_WIDTH, MAX_HEIGHT).
C23_GrantCount ==
    /\ probe.f = "new" =>
          (probe.r = "ok" <=> /\ 0 < probe.width
                              /\ probe.width <= 16384
                              /\ 0 < probe.height
                              /\ probe.height <= 6144)
    /\ probe.f = "grefs" =>
          /\ probe.size = 4 * probe.width * probe.height
          /\ probe.size + 4095 <= 2147483647
          /\ probe.grefs * 4096 >= probe.size
          /\ (probe.grefs - 1) * 4096 < probe.size
          /\ probe.client = probe.grefs
          /\ probe.grefs <= MAX_GRANT_REFS_COUNT
          /\ (probe.width = 16384 /\ probe.height = 6144)
                => probe.grefs = MAX_GRANT_REFS_COUNT

C23_Witness ==
    /\ probe.f = "grefs"
    /\ probe.width = MAX_WINDOW_WIDTH
    /\ probe.height = MAX_WINDOW_HEIGHT
    /\ probe.grefs = MAX_GRANT_REFS_COUNT


(***************************************************************************)
(* The grant allocator: qubes-gui-gntalloc's Allocator and Buffer, and the *)
(* gntalloc device behind them.  gnt holds the handle (file), the index    *)
(* the device hands out next, the live buffers (bufs), every buffer ever   *)
(* made, the device's grants and mappings, and the requests issued so far  *)
(* (trace); from is the length of the trace when the last call began.      *)
(***************************************************************************)
\* alloc_buffer calls made on one allocator
MaxAllocs == 3

Request(req, index, n, ok) ==
    [req |-> req, index |-> index, count |-> n, ok |-> ok]

\* the device: a successful request changes its grants or its mappings
OsDo(k, e) ==
    IF ~e.ok THEN k
    ELSE IF e.req = "alloc"
    THEN [k EXCEPT !.grants = @ \cup {[index |-> e.index, count |-> e.count]}]
    ELSE IF e.req \in {"dealloc", "release"}
    THEN [k EXCEPT !.grants = @ \ {[index |-> e.index, count |-> e.count]}]
    ELSE IF e.req = "mmap"
    THEN [k EXCEPT !.maps = @ \cup {[index |-> e.index, count |-> e.count]}]
    ELSE IF e.req = "munmap"
    THEN [k EXCEPT !.maps = @ \ {[index |-> e.index, count |-> e.count]}]
    ELSE k

RECURSIVE OsRun(_, _)
OsRun(k, es) ==
    IF es = << >> THEN k ELSE OsRun(OsDo(k, Head(es)), Tail(es))

\* closing the handle: the device releases every grant it still holds
RECURSIVE OsClose(_)
OsClose(grants) ==
    IF grants = {} THEN << >>
    ELSE LET g == CHOOSE x \in grants : \A y \in grants : x.index <= y.index
         IN  <<Request("release", g.index, g.count, TRUE)>>
                 \o OsClose(grants \ {g})

\* the MAP_FAILED arm without its release
map_failed_leaks(index, n) == << >>

\* alloc_buffer's MAP_FAILED arm
map_failed(index, n) == <<Request("dealloc", index, n, TRUE)>>

\* the requests one alloc_buffer call issues
alloc_buffer_requests(width, height, index, allocFails, mapFails) ==
    IF new(width, height) # "ok" THEN << >>
    ELSE LET n == grefs(width, height)
             a == Request("alloc", index, n, ~allocFails)
             m == Request("mmap", index, buffer_size(width, height), ~mapFails)
         IN  IF allocFails THEN <<a>>
             ELSE IF mapFails THEN <<a, m>> \o map_failed(index, n)
             ELSE <<a, m>>

alloc_buffer_result(width, height, allocFails, mapFails) ==
    IF new(width, height) # "ok" THEN "invalid"
    ELSE IF allocFails THEN "alloc_failed"
    ELSE IF mapFails THEN "map_failed"
    ELSE "ok"

\* Buffer::drop with the release issued whatever became of the handle
drop_requests_always(b, open) ==
    <<Request("munmap", b.offset, b.size, TRUE),
      Request("dealloc", b.offset, b.grefs, TRUE)>>

\* Buffer::drop: unmap, then release if the handle can still be upgraded
drop_requests(b, open) ==
    <<Request("munmap", b.offset, b.size, TRUE)>>
        \o (IF open THEN <<Request("dealloc", b.offset, b.grefs, TRUE)>>
            ELSE << >>)

\* gntalloc::new succeeded
NewAllocator ==
    [file |-> "open", next |-> 0, calls |-> 0, arg |-> <<1, 1>>,
     bufs |-> {}, made |-> {}, grants |-> {}, maps |-> {},
     trace |-> << >>, from |-> 0]

\* the dimensions alloc_buffer is called with
AllocDims ==
    {<<0, 1>>, <<1, 1>>, <<1025, 1>>, <<MAX_WINDOW_WIDTH + 1, 1>>,
     <<1, MAX_WINDOW_HEIGHT + 1>>}

InitAlloc ==
    /\ InitStream
    /\ peer = << >>
    /\ rstream = << >>
    /\ probe = NoProbe
    /\ gnt = NewAllocator

AllocBuffer(width, height, allocFails, mapFails) ==
    /\ gnt.file = "open"
    /\ gnt.calls < MaxAllocs
    /\ LET es == alloc_buffer_requests(width, height, gnt.next,
                                       allocFails, mapFails)
           r  == alloc_buffer_result(width, height, allocFails, mapFails)
           k  == OsRun([grants |-> gnt.grants, maps |-> gnt.maps], es)
           b  == [offset |-> gnt.next, grefs |-> grefs(width, height),
                  size |-> buffer_size(width, height)]
       IN  /\ gnt' = [gnt EXCEPT
                         !.calls = @ + 1,
                         !.arg = <<width, height>>,
                         !.next = IF r \in {"ok", "map_failed"}
                                  THEN @ + b.grefs * XC_PAGE_SIZE ELSE @,
                         !.bufs = IF r = "ok" THEN @ \cup {b} ELSE @,
                         !.made = IF r = "ok" THEN @ \cup {b} ELSE @,
                         !.grants = k.grants,
                         !.maps = k.maps,
                         !.from = Len(gnt.trace),
                         !.trace = @ \o es]
           /\ res' = r
    /\ op' = "alloc_buffer"
    /\ UNCHANGED <<streamVars, present_windows, status, rstream, rcursor,
                   avail, sent, space, rfail, wfail, pc, ready, histVars,
                   waited, dropped, dmn, probe>>

DropBuffer(b) ==
    /\ b \in gnt.bufs
    /\ LET es == drop_requests(b, gnt.file = "open")
           k  == OsRun([grants |-> gnt.grants, maps |-> gnt.maps], es)
       IN  gnt' = [gnt EXCEPT !.bufs = @ \ {b},
                              !.grants = k.grants,
                              !.maps = k.maps,
                              !.from = Len(gnt.trace),
                              !.trace = @ \o es]
    /\ op' = "drop_buffer"
    /\ res' = "ok"
    /\ UNCHANGED <<streamVars, present_windows, status, rstream, rcursor,
                   avail, sent, space, rfail, wfail, pc, ready, histVars,
                   waited, dropped, dmn, probe>>

\* the last strong reference to the file goes: the handle is closed
DropAllocator ==
    /\ gnt.file = "open"
    /\ LET es == <<Request("close", 0, 0, TRUE)>> \o OsClose(gnt.grants)
           k  == OsRun([grants |-> gnt.grants, maps |-> gnt.maps], es)
       IN  gnt' = [gnt EXCEPT !.file = "closed",
                              !.grants = k.grants,
                              !.maps = k.maps,
                              !.from = Len(gnt.trace),
                              !.trace = @ \o es]
    /\ op' = "drop_allocator"
    /\ res' = "ok"
    /\ UNCHANGED <<streamVars, present_windows, status, rstream, rcursor,
                   avail, sent, space, rfail, wfail, pc, ready, histVars,
                   waited, dropped, dmn, probe>>

NextAlloc ==
    \/ \E d \in AllocDims, allocFails \in BOOLEAN, mapFails \in BOOLEAN :
           AllocBuffer(d[1], d[2], allocFails, mapFails)
    \/ \E b \in gnt.bufs : DropBuffer(b)
    \/ DropAllocator

SpecAlloc == InitAlloc /\ [][NextAlloc]_vars

\* the requests the last call issued, in a state s of gnt
IssuedBy(s) == SubSeq(s.trace, s.from + 1, Len(s.trace))

Positions(es, reqs) == {i \in DOMAIN es : es[i].req \in reqs}

\* C24: a failing alloc_buffer call leaves the grants, the mappings and the
\* buffers as they were; bad dimensions (a zero or an over-limit side) are
\* refused before any request is issued; a failed grant allocation issues
\* that request and nothing else; a failed mapping issues exactly one
\* deallocation request, last, for the index and the count just allocated.
C24_FailedAllocLeavesNothing ==
    [][(op' = "alloc_buffer" /\ gnt'.calls # gnt.calls) =>
          LET es == IssuedBy(gnt')
              width == gnt'.arg[1]
              height == gnt'.arg[2]
              bad == \/ width = 0 \/ height = 0
                     \/ width > MAX_WINDOW_WIDTH \/ height > MAX_WINDOW_HEIGHT
          IN  /\ bad <=> res' = "invalid"
              /\ res' = "invalid" => es = << >>
              /\ res' # "ok" =>
                    /\ gnt'.grants = gnt.grants
                    /\ gnt'.maps = gnt.maps
                    /\ gnt'.bufs = gnt.bufs
              /\ res' = "alloc_failed" =>
                    /\ Len(es) = 1
                    /\ es[1].req = "alloc" /\ ~es[1].ok
              /\ res' = "map_failed" =>
                    /\ Len(es) = 3
                    /\ es[1].req = "alloc" /\ es[1].ok
                    /\ es[2].req = "mmap" /\ ~es[2].ok
                    /\ es[3] = Request("dealloc", es[1].index, es[1].count,
                                       TRUE)
                    /\ es[1].count = grefs(width, height)
                    /\ Positions(es, {"dealloc"}) = {3}]_vars

C24_Witness ==
    /\ op = "alloc_buffer"
    /\ res = "map_failed"
    /\ gnt.bufs # {}
    /\ gnt.grants = {[index |-> b.offset, count |-> b.grefs] : b \in gnt.bufs}
    /\ Positions(IssuedBy(gnt), {"dealloc"}) # {}


\* how often the device's grants at index o were released, by either way
Releases(o) ==
    Cardinality({i \in Positions(gnt.trace, {"dealloc", "release"}) :
                     gnt.trace[i].index = o /\ gnt.trace[i].ok})

Unmaps(o) ==
    Cardinality({i \in Positions(gnt.trace, {"munmap"}) :
                     gnt.trace[i].index = o})

\* where the handle was closed in the trace, past its end if it is open
ClosedAt ==
    IF Positions(gnt.trace, {"close"}) = {} THEN Len(gnt.trace) + 1
    ELSE CHOOSE i \in Positions(gnt.trace, {"close"}) : TRUE

\* C25: the grants of every buffer ever made are released at most once,
\* and exactly once as soon as the buffer is dropped or the handle is
\* closed: by the buffer's own request, right after its unmapping, when it
\* is dropped while the handle is open, and by the device at the close
\* otherwise; its mapping is unmapped exactly once, when it is dropped.
C25_ReleasedExactlyOnce ==
    \A b \in gnt.made :
        LET o == b.offset
            rel == {i \in Positions(gnt.trace, {"dealloc", "release"}) :
                        gnt.trace[i].index = o}
            unm == {i \in Positions(gnt.trace, {"munmap"}) :
                        gnt.trace[i].index = o}
            gone == b \notin gnt.bufs
        IN  /\ Releases(o) <= 1
            /\ Unmaps(o) <= 1
            /\ gone <=> Unmaps(o) = 1
            /\ (gone \/ gnt.file = "closed") <=> Releases(o) = 1
            /\ ([index |-> o, count |-> b.grefs] \in gnt.grants)
                   <=> Releases(o) = 0
            /\ ([index |-> o, count |-> b.size] \in gnt.maps) <=> ~gone
            /\ \A i \in rel :
                   /\ gnt.trace[i].count = b.grefs
                   /\ gnt.trace[i].req = "dealloc" =>
                          /\ i < ClosedAt
                          /\ i - 1 \in unm
                   /\ gnt.trace[i].req = "release" =>
                          /\ i > ClosedAt
                          /\ \A j \in unm : j > i
            /\ \A j \in unm :
                   /\ gnt.trace[j].count = b.size
                   /\ j < ClosedAt => j + 1 \in rel

\* both orders happened: one buffer was dropped before the allocator and
\* one after it
C25_Witness ==
    /\ gnt.file = "closed"
    /\ gnt.bufs = {}
    /\ \E b1, b2 \in gnt.made :
           /\ \E i \in Positions(gnt.trace, {"dealloc"}) :
                  gnt.trace[i].index = b1.offset
           /\ \E i \in Positions(gnt.trace, {"release"}) :
                  gnt.trace[i].index = b2.offset
           /\ Unmaps(b1.offset) = 1
           /\ Unmaps(b2.offset) = 1


(***************************************************************************)
(* Castable: qubes-castable's as_bytes and from_bytes.  A type is its      *)
(* layout: a leaf (an unsigned or a signed integer of n bytes, an          *)
(* Option<NonZero> of n bytes, the unit type) or an aggregate (a castable! *)
(* struct or an array) of the types in `of`, laid out one after the other  *)
(* with no padding.  A value is an integer for an integer leaf, << >> or   *)
(* <<n>> for None and Some(n), and the tuple of its fields' values for an  *)
(* aggregate.  The bytes of a leaf are in the machine's byte order.        *)
(***************************************************************************)
\* the widest leaf, in bytes
MaxField == 2
\* bytes tried in every position of a byte string
ProbeBytes == {0, 1, 128, 255}

RECURSIVE Pow256(_)
Pow256(n) == IF n = 0 THEN 1 ELSE 256 * Pow256(n - 1)

Leaf(k, n) == [k |-> k, n |-> n, of |-> << >>]
Aggregate(of) == [k |-> "struct", n |-> 0, of |-> of]
Array(T, COUNT) == Aggregate([i \in 1..COUNT |-> T])

RECURSIVE size_of(_)
size_of(T) ==
    IF T.k = "unit" THEN 0
    ELSE IF T.k = "struct"
    THEN IF T.of = << >> THEN 0
         ELSE size_of(Head(T.of)) + size_of(Aggregate(Tail(T.of)))
    ELSE T.n

\* the n bytes of v in the byte order of the other kind of machine
UintBytesSwapped(v, n, e) ==
    [i \in 1..n |->
        LET at == IF e = "le" THEN n - i ELSE i - 1
        IN  (v \div Pow256(at)) % 256]

\* the n bytes of the unsigned number v, in the byte order e
UintBytes(v, n, e) ==
    [i \in 1..n |->
        LET at == IF e = "le" THEN i - 1 ELSE n - i
        IN  (v \div Pow256(at)) % 256]

RECURSIVE BytesUint(_, _)
BytesUint(b, e) ==
    IF b = << >> THEN 0
    ELSE IF e = "le" THEN Head(b) + 256 * BytesUint(Tail(b), e)
    ELSE b[Len(b)] + 256 * BytesUint(SubSeq(b, 1, Len(b) - 1), e)

\* the memory of a leaf
LeafBytes(T, x, e) ==
    IF T.k = "uint" THEN UintBytes(x, T.n, e)
    ELSE IF T.k = "int"
    THEN UintBytes(IF x < 0 THEN x + Pow256(T.n) ELSE x, T.n, e)
    ELSE IF T.k = "opt"
    THEN UintBytes(IF x = << >> THEN 0 ELSE x[1], T.n, e)
    ELSE << >>

\* the leaf a memory holds
BytesLeaf(T, b, e) ==
    LET v == BytesUint(b, e)
    IN  IF T.k = "uint" THEN v
        ELSE IF T.k = "int"
        THEN IF v >= Pow256(T.n) \div 2 THEN v - Pow256(T.n) ELSE v
        ELSE IF T.k = "opt" THEN (IF v = 0 THEN << >> ELSE <<v>>)
        ELSE << >>

\* Castable::as_bytes: the size_of_val(self) bytes at self
RECURSIVE as_bytes(_, _, _)
as_bytes(T, x, e) ==
    IF T.k # "struct" THEN LeafBytes(T, x, e)
    ELSE IF T.of = << >> THEN << >>
    ELSE as_bytes(Head(T.of), Head(x), e)
             \o as_bytes(Aggregate(Tail(T.of)), Tail(x), e)

\* read_unaligned of a Self at buf
RECURSIVE read_unaligned(_, _, _)
read_unaligned(T, buf, e) ==
    IF T.k # "struct" THEN BytesLeaf(T, buf, e)
    ELSE IF T.of = << >> THEN << >>
    ELSE LET n == size_of(Head(T.of))
         IN  <<read_unaligned(Head(T.of), SubSeq(buf, 1, n), e)>>
                 \o read_unaligned(Aggregate(Tail(T.of)),
                                   SubSeq(buf, n + 1, Len(buf)), e)

\* Castable::zeroed
zeroed(T, e) == read_unaligned(T, [i \in 1..size_of(T) |-> 0], e)

\* Castable::from_bytes
from_bytes(T, buf, e) ==
    IF Len(buf) # size_of(T) THEN "panic"
    ELSE IF size_of(T) = 0 THEN zeroed(T, e)
    ELSE read_unaligned(T, buf, e)

\* the leaf types of up to MaxField bytes
Leaves ==
    {Leaf("unit", 0)}
        \cup {Leaf(k, n) : k \in {"uint", "int", "opt"}, n \in 1..MaxField}

\* test::basic's Simple, test::options' Options, the documentation's Test
\* and Test2, and arrays
Simple == Aggregate(<<Leaf("uint", 1)>>)
Options == Aggregate(<<Leaf("opt", MaxField)>>)
Test == Aggregate(<<Leaf("uint", MaxField), Leaf("int", 1), Leaf("opt", 1)>>)
Test2 == Aggregate(<<Leaf("uint", 1), Simple>>)
CastTypes ==
    Leaves \cup {Simple, Options, Test, Test2, Aggregate(<< >>),
                 Array(Leaf("uint", 1), 2), Array(Simple, 2),
                 Array(Leaf("uint", MaxField), 0)}

RECURSIVE ByteStrings(_)
ByteStrings(n) ==
    IF n = 0 THEN {<< >>}
    ELSE {<<x>> \o b : x \in ProbeBytes, b \in ByteStrings(n - 1)}

\* the values of a leaf whose bytes are all among ProbeBytes, written as
\* numbers
LeafValues(T) ==
    LET top == Pow256(T.n)
        uints == {BytesUint(b, "le") : b \in ByteStrings(T.n)}
    IN  IF T.k = "uint" THEN uints
        ELSE IF T.k = "int"
        THEN {v \in uints : v < top \div 2}
                 \cup {v - top : v \in {u \in uints : u >= top \div 2}}
        ELSE IF T.k = "opt"
        THEN {<< >>} \cup {<<v>> : v \in uints \ {0}}
        ELSE {<< >>}

RECURSIVE Values(_)
Values(T) ==
    IF T.k # "struct" THEN LeafValues(T)
    ELSE IF T.of = << >> THEN {<< >>}
    ELSE {<<x>> \o y : x \in Values(Head(T.of)),
                       y \in Values(Aggregate(Tail(T.of)))}

ByteOrders == {"le", "be"}

InitCast ==
    /\ InitStream
    /\ peer = << >>
    /\ rstream = << >>
    /\ gnt = NoAllocator
    /\ \E T \in CastTypes, e \in ByteOrders :
           \/ \E x \in Values(T) :
                  probe = [f |-> "value", T |-> T, e |-> e, x |-> x,
                           b |-> << >>, r |-> x]
           \/ \E b \in ByteStrings(size_of(T)) :
                  probe = [f |-> "bytes", T |-> T, e |-> e, x |-> << >>,
                           b |-> b, r |-> b]

\* x.as_bytes(), of the value given or of the value from_bytes returned
AsBytes ==
    /\ probe.f \in {"value", "from_bytes"}
    /\ probe' = IF probe.f = "value"
                THEN [probe EXCEPT !.f = "as_bytes",
                                   !.b = as_bytes(probe.T, probe.x, probe.e)]
                ELSE [probe EXCEPT !.f = "bytes_again",
                                   !.r = as_bytes(probe.T, probe.x, probe.e)]
    /\ op' = "as_bytes"
    /\ UNCHANGED <<streamVars, present_windows, status, rstream, rcursor,
                   avail, sent, space, rfail, wfail, pc, ready, res,
                   histVars, waited, dropped, dmn, gnt>>

\* T::from_bytes(b), of the bytes given or of the bytes as_bytes returned
FromBytes ==
    /\ probe.f \in {"bytes", "as_bytes"}
    /\ probe' = IF probe.f = "bytes"
                THEN [probe EXCEPT !.f = "from_bytes",
                                   !.x = from_bytes(probe.T, probe.b, probe.e)]
                ELSE [probe EXCEPT !.f = "value_again",
                                   !.r = from_bytes(probe.T, probe.b, probe.e)]
    /\ op' = "from_bytes"
    /\ UNCHANGED <<streamVars, present_windows, status, rstream, rcursor,
                   avail, sent, space, rfail, wfail, pc, ready, res,
                   histVars, waited, dropped, dmn, gnt>>

NextCast == AsBytes \/ FromBytes

SpecCast == InitCast /\ [][NextCast]_vars

\* C26: for every castable type T, from_bytes(as_bytes(x)) = x for every
\* value x of T, and as_bytes(from_bytes(b)) = b for every byte string b
\* of size_of(T) bytes; as_bytes returns size_of(T) bytes.
C26_CastRoundTrip ==
    /\ probe.f = "as_bytes" => Len(probe.b) = size_of(probe.T)
    /\ probe.f = "value_again" => probe.r = probe.x
    /\ probe.f = "from_bytes" => probe.x \in Values(probe.T)
    /\ probe.f = "bytes_again" => probe.r = probe.b

\* both round trips were made on an aggregate whose two-byte field has
\* different bytes
C26_Witness ==
    /\ probe.T = Test
    /\ \/ probe.f = "value_again" /\ probe.x[1] = 256 /\ probe.r = probe.x
       \/ probe.f = "bytes_again" /\ probe.b[1] # probe.b[2]


(***************************************************************************)
(* Partial reads: what one read_message call leaves behind when a part of  *)
(* a unit is ready.                                                        *)
(***************************************************************************)
\* a read_message call has just returned
JustRead == op = "read_message" /\ pc = "idle"

\* the byte of the stream after the body the last header announced
BodyEnd == lastHdr.end + lastHdr.h.untrusted_len

\* C27: while fewer body bytes than the header announced have been
\* received, read_message returns no message, stays in ReadingBody with
\* that header and has taken every ready byte; the call that returns the
\* message has received the last body byte, is in ReadingHeader and holds
\* a body of exactly the announced length.
C27_MessageOnlyWhenBodyComplete ==
    (JustRead /\ lastHdr # NoHdr) =>
        /\ state = "ReadingBody" =>
              /\ res = "none"
              /\ header = lastHdr.h
              /\ rcursor < BodyEnd
              /\ avail = 0
        /\ res = "msg" =>
              /\ state = "ReadingHeader"
              /\ rcursor = BodyEnd
              /\ Len(buffer) = lastHdr.h.untrusted_len


\* fewer bytes are ready than the unit the state waits for
ShortOfUnit ==
    \/ state = "ReadingHeader" /\ avail < SizeOfHeader
    \/ state = "ReadingXConf" /\ avail < SIZE_OF_XCONF

\* this step is a read_message call from its start
ReadCall == pc = "idle" /\ op' = "read_message"

\* the call returns no message and leaves the vchan's data and the state
Unmoved ==
    /\ res' = "none"
    /\ pc' = "idle"
    /\ rcursor' = rcursor
    /\ avail' = avail
    /\ state' = state

SentNow == Len(sent') - Len(sent)

\* C29: every write, flush and read_message call passes to the vchan's
\* send at most as many bytes as buffer_space reported: the bytes a call
\* sends are no more than the space at its start, the space goes down by
\* what was sent and never below zero.
C29_SendWithinSpace ==
    /\ [](space >= 0)
    /\ [][(pc = "idle" /\ op' \in {"write", "flush_pending_writes", "read_message"})
             =>
             /\ SentNow >= 0
             /\ SentNow <= space
             /\ space' = space - SentNow]_vars

\* the one write call made so far sent what the space allowed and queued
\* the rest
C29_Witness ==
    /\ op = "write"
    /\ res = "ok"
    /\ Len(written) = MaxBuf
    /\ Len(sent) = direct + 1
    /\ Len(queue) = MaxBuf - 1
    /\ space = 0


\* the bytes the arm taken in m asks the vchan for
Asked(m) ==
    CASE m.state = "ReadingXConf" /\ m.ready >= SIZE_OF_XCONF -> SIZE_OF_XCONF
      [] m.state = "ReadingHeader" /\ m.ready >= SizeOfHeader -> SizeOfHeader
      [] m.state = "Discard" /\ m.ready > 0 ->
            Min(m.ready,
                Min(m.count,
                    Max(Min(m.count, DiscardChunk), Len(m.buffer))))
      [] m.state = "ReadingBody" /\ m.ready > 0 ->
            Min(m.ready, Len(m.buffer) - m.count)
      [] OTHER -> 0

RECURSIVE AsksWithin(_)
\* every read of the loop run from m asks for no more than is ready then
AsksWithin(m) ==
    IF m.out # "run" THEN TRUE
    ELSE /\ Asked(m) <= m.avail
         /\ \A next \in {Step(m)} : AsksWithin(next)

\* C30: every read a read_message call makes, the first and each one after
\* it in the same call, asks the vchan for at most the bytes ready at that
\* moment.
C30_RequestsWithinReady ==
    [][(pc = "idle" /\ op' = "read_message") =>
          AsksWithin(Machine(avail))]_vars


(***************************************************************************)
(* The write queue after a call                                            *)
(***************************************************************************)
\* the bytes this step passed to write
WrittenNow == Len(written') - Len(written)

\* C31: when write, flush_pending_writes or read_message returns without
\* an error, the queue is non-empty only if the vchan's buffer space is 0;
\* each of them sends as many of the queued bytes as the space takes, and
\* write queues only the bytes that did not fit.
C31_QueueOnlyWhenFull ==
    /\ []((/\ op \in {"write", "flush_pending_writes", "read_message"}
           /\ pc = "idle"
           /\ res \notin ErrorResults
           /\ res # "io")
             => (queue # << >> => space = 0))
    /\ [][(/\ pc = "idle"
           /\ op' \in {"write", "flush_pending_writes", "read_message"}
           /\ res' \notin ErrorResults
           /\ res' # "io")
             => /\ SentNow = Min(space, Len(queue) + WrittenNow)
                /\ Len(queue') = Len(queue) + WrittenNow - SentNow]_vars


(***************************************************************************)
(* What is left unread when read_message returns no message                *)
(***************************************************************************)
\* the header that starts at the next unread byte
NextHeader == HeaderFromBytes(SubSeq(rstream, rcursor + 1, rcursor + SizeOfHeader))

\* a whole message of a known kind and a legal length is ready to be read
MessageReadable ==
    /\ state = "ReadingHeader"
    /\ avail >= SizeOfHeader
    /\ msg_length_limits(NextHeader.ty) # None
    /\ Contains(msg_length_limits(NextHeader.ty), NextHeader.untrusted_len)
    /\ avail >= SizeOfHeader + NextHeader.untrusted_len

\* the bytes ready cannot complete the step the state waits for
OutOfInput ==
    \/ state = "Connecting" /\ status = "Waiting"
    \/ state = "ReadingXConf" /\ avail < SIZE_OF_XCONF
    \/ state = "ReadingHeader" /\ avail < SizeOfHeader
    \/ state = "ReadingBody" /\ avail < Len(buffer) - count
    \/ state = "Discard" /\ avail < count

\* C32: read_message returns no message only when it is out of input (the
\* vchan is Waiting, or fewer bytes are ready than the configuration, the
\* header, or the rest of the body or of the discard needs), and never
\* while a whole message is ready.
C32_NoneOnlyWhenOutOfInput ==
    (JustRead /\ res = "none") => (OutOfInput /\ ~MessageReadable)


(***************************************************************************)
(* MFNDUMP headers: the reader against a peer that sends MFNDUMP messages  *)
(* of 1 byte, as the test vchan_reads does, and CLOSE messages.            *)
(***************************************************************************)
\* the header of vchan_reads: MFNDUMP announcing 1 byte
ShortMfnDumpMsg == Message(MSG_MFNDUMP, 0, 1, <<33>>)

InitMfn ==
    /\ InitAgent
    /\ peer \in Streams({ShortMfnDumpMsg, CloseMsg}, MaxMsgs)
    /\ rstream = Wire(peer)

NextMfn ==
    \/ ReadMessage
    \/ \E k \in {1, 2, SizeOfHeader - 2, SizeOfHeader} : Arrive(k)

SpecMfn == InitMfn /\ [][NextMfn]_vars

\* C33: once the header of an MFNDUMP message announcing 1 byte has been
\* read, the stream is in Error and the read_message call that read it
\* returned an error.
C33_ShortMfnDumpIsError ==
    (lastHdr # NoHdr /\ lastHdr.h = ShortMfnDumpMsg.h) =>
        /\ state = "Error"
        /\ JustRead => res \in ErrorResults


(***************************************************************************)
(* The configuration block: read in full on every connection before any    *)
(* header.                                                                 *)
(***************************************************************************)
\* the caller holds the stream: agent() has returned it
HeldByCaller == pc \in {"idle", "recv"}

\* the bytes the vchan gave to the stream in this step
ReadNow == rcursor' - rcursor

\* C34: a stream the caller holds is in ReadingHeader, ReadingBody or
\* Discard only when the first SIZE_OF_XCONF bytes of the connection have
\* been consumed and are the stream's xconf; a read_message call that
\* takes bytes of the block takes all of them and goes to ReadingHeader, or
\* fewer and goes to Error; agent() takes all of them or returns no stream.
C34_XConfBeforeHeader ==
    /\ [](HeldByCaller /\ state \in Active =>
            /\ rcursor >= SIZE_OF_XCONF
            /\ xconf = SubSeq(rstream, 1, SIZE_OF_XCONF))
    /\ [][(rcursor < SIZE_OF_XCONF /\ ReadNow > 0) =>
            \/ /\ rcursor = 0
               /\ ReadNow = SIZE_OF_XCONF
               /\ state' = "ReadingHeader"
               /\ pc' = "idle"
            \/ /\ ReadNow < SIZE_OF_XCONF - rcursor
               /\ state' = "Error"]_vars

\* after a reconnect whose configuration came in pieces, read_message has
\* read the whole block and the stream reads headers
C34_Witness ==
    /\ op = "read_message"
    /\ res = "none"
    /\ did_reconnect
    /\ state = "ReadingHeader"
    /\ rcursor = SIZE_OF_XCONF
    /\ xconf = SubSeq(rstream, 1, SIZE_OF_XCONF)
    /\ avail = 3


(***************************************************************************)
(* The version word of each connection                                     *)
(***************************************************************************)
\* C35: on every connection, what a stream held by the caller has handed
\* to the vchan starts with the four bytes of PROTOCOL_VERSION (major 1,
\* minor 4), once, and every byte after them is a byte the caller wrote.
C35_VersionWordFirst ==
    (HeldByCaller /\ sent # << >>) =>
        /\ Len(sent) >= SizeOfU32
        /\ Take(sent, SizeOfU32) = LE4(PROTOCOL_VERSION)
        /\ IsPrefix(Drop(sent, SizeOfU32), written)


(***************************************************************************)
(* The state machine of the stream, edge by edge                           *)
(***************************************************************************)
\* the documented edges; Negotiating is ReadState::ReadingXConf
Edges ==
    {<<"Connecting", "ReadingXConf">>, <<"ReadingXConf", "ReadingHeader">>,
     <<"ReadingHeader", "ReadingBody">>, <<"ReadingHeader", "Discard">>,
     <<"ReadingBody", "ReadingHeader">>, <<"Discard", "ReadingHeader">>}
      \cup {<<s, "Error">> : s \in {"Connecting", "ReadingXConf",
                                     "ReadingHeader", "ReadingBody", "Discard"}}

RECURSIVE EdgesOnly(_)
\* every assignment to self.state in the rest of the loop follows an edge
EdgesOnly(m) ==
    IF m.out # "run" THEN TRUE
    ELSE \A next \in {Step(m)} :
            /\ next.state = m.state \/ <<m.state, next.state>> \in Edges
            /\ EdgesOnly(next)

\* read_message assigns the state along documented edges only and does
\* not leave Error; no other operation than reconnect changes the state,
\* and reconnect leaves Connecting
EdgesAfterConstruction ==
    [][/\ op' = "read_message" =>
            /\ EdgesOnly(Machine(IF pc = "idle" THEN avail ELSE ready))
            /\ state' = state \/ state # "Error"
       /\ (op' # "read_message" /\ state' # state) =>
            (op' = "reconnect" /\ state' = "Connecting")]_vars

\* C36: a stream that agent() has just returned is in Connecting; every
\* assignment to the state made by read_message follows a documented
\* edge; no other operation than reconnect changes the state, reconnect
\* leaves Connecting, and nothing but reconnect leaves Error.
C36_DocumentedEdges ==
    /\ []((op = "agent" /\ pc = "idle") => state = "Connecting")
    /\ EdgesAfterConstruction


(***************************************************************************)
(* Discarding: the peer announces unknown messages of any length           *)
(***************************************************************************)
\* the most bytes the peer sends of the body it announced
MaxDiscardSent == 300
\* the peer's bytes become ready this many at a time, or MaxDiscardSent
DiscardStep == 100
\* the body of a clipboard message longer than a discard chunk
BigBody == 260

\* the lengths announced: around the chunk size, and the largest the
\* model's integers hold
DiscardLens == {1, DiscardChunk - 1, DiscardChunk, DiscardChunk + 1,
                MaxDiscardSent, 2147483647}

\* an unknown message announcing n bytes, of which the peer has sent the
\* first MaxDiscardSent at most
LongUnknownMsg(n) ==
    Message(9999, 1, n, [i \in 1..Min(n, MaxDiscardSent) |-> 7])

BigClipboardMsg ==
    Message(MSG_CLIPBOARD_DATA, 1, BigBody, [i \in 1..BigBody |-> 1])

InitDiscard ==
    /\ InitAgent
    /\ \E n \in DiscardLens,
          before \in {<< >>, <<CursorMsg>>, <<BigClipboardMsg>>} :
            peer = before \o <<LongUnknownMsg(n), CursorMsg>>
    /\ rstream = Wire(peer)

NextDiscard ==
    \/ ReadMessage
    \/ Resume
    \/ \E k \in {DiscardStep, MaxDiscardSent} : Arrive(k)

SpecDiscard == InitDiscard /\ [][NextDiscard]_vars

\* C37: a read_message call that discards does not leave the buffer longer
\* than max(256, its length before); the buffer is never longer than the
\* longest body the limits allow, 16 + 4 * MAX_GRANT_REFS_COUNT.
C37_DiscardBufferBounded ==
    /\ [](Len(buffer) <= SizeOfWindowDumpHeader + SizeOfU32 * MAX_GRANT_REFS_COUNT)
    /\ [][(/\ op' = "read_message"
           /\ state = "Discard" \/ state' = "Discard"
           /\ state' # "ReadingBody")
             => Len(buffer') <= Max(256, Len(buffer))]_vars

\* a chunk of a message announcing 2^31 - 1 bytes has been discarded, and
\* the buffer is one chunk long
C37_Witness ==
    /\ op = "read_message"
    /\ state = "Discard"
    /\ count > 2147483647 - 2 * DiscardChunk
    /\ count < 2147483647
    /\ Len(buffer) = DiscardChunk
    /\ rcursor >= SizeOfHeader + DiscardChunk


(***************************************************************************)
(* The pairs read_message returns, as DaemonToAgentEvent::parse takes them *)
(***************************************************************************)
\* the sizes of the structs parse fills with copy_from_slice(body), by
\* kind: one struct, or none
parse_copies(ty) ==
    CASE ty = MSG_MOTION -> {SizeOfMotion}
      [] ty = MSG_CROSSING -> {SizeOfCrossing}
      [] ty = MSG_KEYPRESS -> {SizeOfKeypress}
      [] ty = MSG_BUTTON -> {SizeOfButton}
      [] ty = MSG_KEYMAP_NOTIFY -> {SizeOfKeymapNotify}
      [] ty = MSG_MAP -> {SizeOfMapInfo}
      [] ty = MSG_CONFIGURE -> {SizeOfConfigure}
      [] ty = MSG_FOCUS -> {SizeOfFocus}
      [] ty = MSG_WINDOW_FLAGS -> {SizeOfWindowFlags}
      [] OTHER -> {}

\* parse panics: the assert_eq on the length, or a copy_from_slice between
\* slices of different lengths
parse_panics(h, body) ==
    \/ h.untrusted_len # Len(body)
    \/ \E size \in parse_copies(h.ty) : size # Len(body)

\* C38: every pair read_message has returned has a body as long as its
\* header announces, within the limits of its kind, and parse does not
\* panic on it.
C38_ReturnedPairsParse ==
    \A i \in DOMAIN delivered :
        LET h == delivered[i].h
            body == delivered[i].body
        IN  /\ Len(body) = h.untrusted_len
            /\ msg_length_limits(h.ty) # None
            /\ Contains(msg_length_limits(h.ty), h.untrusted_len)
            /\ ~parse_panics(h, body)

\* read_message has returned a MOTION message whose body arrived in pieces
C38_Witness ==
    /\ op = "read_message"
    /\ res = "msg"
    /\ delivered # << >>
    /\ delivered[1].h.ty = MSG_MOTION
    /\ Len(delivered[1].body) = SizeOfMotion
    /\ rcursor < SizeOfHeader + SizeOfMotion


(***************************************************************************)
(* The client's windows across a reconnect                                 *)
(***************************************************************************)
\* the windows the agent creates and destroys
Windows == {1, 2}

NextWindows ==
    \/ \E ty \in {MSG_CREATE, MSG_DESTROY}, window \in Windows :
          SendRaw(ty, window, SendBody(MaxBuf), FALSE)
    \/ Reconnect(<<CloseMsg>>, FALSE)
    \/ Connect
    \/ Arrive(SIZE_OF_XCONF)
    \/ ReadMessage
    \/ Reconnected
    \/ SetSpace(RingSize)

SpecWindows == InitWrite /\ [][NextWindows]_vars

\* C39: when reconnected() has just returned true, a send_raw of CREATE
\* does not abort, whatever the window.
C39_CreateAfterReconnect ==
    [][(op = "reconnected" /\ res = "true") =>
          \A window \in Windows :
              ~(/\ SendRaw(MSG_CREATE, window, SendBody(MaxBuf), FALSE)
                /\ res' = "panic")]_vars


(***************************************************************************)
(* The window-dump message of a buffer: the memory of Buffer::message, as  *)
(* u32 words, through alloc_buffer and msg                                 *)
(***************************************************************************)
\* size_of::<ioctl_gntalloc_alloc_gref>() / size_of::<u32>()
HEADER_U32S == 4
GNTALLOC_FLAG_WRITABLE == 1
WINDOW_DUMP_TYPE_GRANT_REFS == 0
\* the bpp alloc_buffer writes
WINDOW_DUMP_BPP == 24

\* a word of the message that nothing has written
Uninit == -1

\* Vec::<u64>::with_capacity((grefs + 5) / 2): the capacity, in u64s
message_capacity(n) == (n + 5) \div 2

\* the memory after the ioctl struct has been written, and the last u32 if
\* the count is odd: domid and flags, count, index (two words), gref_ids
alloc_gref_request(domid, n) ==
    [i \in 1..(2 * message_capacity(n)) |->
        CASE i = 1 -> domid + 65536 * GNTALLOC_FLAG_WRITABLE
          [] i = 2 -> n
          [] i \in {3, 4} -> 0
          [] i = n + HEADER_U32S + 1 /\ n % 2 = 1 -> 0
          [] OTHER -> Uninit]

\* IOCTL_GNTALLOC_ALLOC_GREF succeeds: the device writes the index and
\* count grant references into gref_ids
ioctl_alloc_gref(words, index, ids) ==
    [i \in 1..Len(words) |->
        CASE i = 3 -> index
          [] i > HEADER_U32S /\ i <= HEADER_U32S + Len(ids) -> ids[i - HEADER_U32S]
          [] OTHER -> words[i]]

\* ptr::write of the WindowDumpHeader over the start of the message
write_window_dump_header(words, width, height) ==
    [i \in 1..Len(words) |->
        CASE i = 1 -> WINDOW_DUMP_TYPE_GRANT_REFS
          [] i = 2 -> width
          [] i = 3 -> height
          [] i = 4 -> WINDOW_DUMP_BPP
          [] OTHER -> words[i]]

\* a mutant of total_length: the header is left out
total_length_without_header(width, height) == grefs(width, height) * 4

\* Buffer::msg: total_length, in bytes
total_length(width, height) ==
    grefs(width, height) * 4 + SizeOfWindowDumpHeader

\* Buffer::msg: the first total_length bytes of the message, as words
msg(words, width, height) ==
    Take(words, total_length(width, height) \div SizeOfU32)

\* the dimensions allocated: one grant, two, many, and the largest
MsgDims(max) == {1, 33, 1024, max}
\* the first grant reference the device hands out
GrefBases == {1, 256, 65536}
\* the memory of a message is followed word by word up to this many
\* grants, and by its sizes beyond
MaxGrefsShown == 1100

\* the grant references the device writes: n of them, from ref on
GrantIds(ref, n) == [i \in 1..n |-> ref + i - 1]

InitMsg ==
    /\ InitStream
    /\ peer = << >>
    /\ rstream = << >>
    /\ gnt = NoAllocator
    /\ \E w \in MsgDims(MAX_WINDOW_WIDTH), h \in MsgDims(MAX_WINDOW_HEIGHT),
          ref \in GrefBases :
          probe = [f |-> "arg", width |-> w, height |-> h, ref |-> ref]

\* alloc_buffer(width, height) on an allocator whose ioctl and mmap succeed
AllocMessage ==
    /\ probe.f = "arg"
    /\ new(probe.width, probe.height) = "ok"
    /\ LET n == grefs(probe.width, probe.height)
           ids == GrantIds(probe.ref, n)
           asked == alloc_gref_request(0, n)
           filled == ioctl_alloc_gref(asked, 0, ids)
       IN  IF n <= MaxGrefsShown
           THEN probe' = [f |-> "alloc_buffer", width |-> probe.width,
                          height |-> probe.height, ids |-> ids,
                          capacity |-> message_capacity(n),
                          message |-> write_window_dump_header(
                                          filled, probe.width, probe.height)]
           ELSE probe' = [f |-> "alloc_buffer_sizes", width |-> probe.width,
                          height |-> probe.height,
                          capacity |-> message_capacity(n)]
    /\ op' = "alloc_buffer"
    /\ UNCHANGED <<streamVars, present_windows, status, rstream, rcursor,
                   avail, sent, space, rfail, wfail, pc, ready, res,
                   histVars, waited, dropped, dmn, gnt>>

\* Buffer::msg()
BufferMsg ==
    /\ probe.f \in {"alloc_buffer", "alloc_buffer_sizes"}
    /\ IF probe.f = "alloc_buffer"
       THEN probe' = [f |-> "msg", width |-> probe.width,
                      height |-> probe.height,
                      ids |-> probe.ids, capacity |-> probe.capacity,
                      msg |-> msg(probe.message, probe.width, probe.height),
                      len |-> total_length(probe.width, probe.height)]
       ELSE probe' = [f |-> "msg_sizes", width |-> probe.width,
                      height |-> probe.height, capacity |-> probe.capacity,
                      len |-> total_length(probe.width, probe.height)]
    /\ op' = "msg"
    /\ UNCHANGED <<streamVars, present_windows, status, rstream, rcursor,
                   avail, sent, space, rfail, wfail, pc, ready, res,
                   histVars, waited, dropped, dmn, gnt>>

NextMsg == AllocMessage \/ BufferMsg

SpecMsg == InitMsg /\ [][NextMsg]_vars

\* C40: the message msg() returns is the header (GRANT_REFS, width, height,
\* 24) followed by the grefs(width, height) grant references the device
\* wrote, in order; its length in bytes, 16 + 4 * grefs, is at most the 8 *
\* capacity bytes of the message buffer and within the limits of
\* WINDOW_DUMP.
C40_WindowDumpMessage ==
    /\ probe.f \in {"msg", "msg_sizes"} =>
        LET n == grefs(probe.width, probe.height) IN
            /\ probe.len = 16 + 4 * n
            /\ probe.len <= 8 * probe.capacity
            /\ Contains(msg_length_limits(MSG_WINDOW_DUMP), probe.len)
    /\ probe.f = "msg" =>
            /\ SizeOfU32 * Len(probe.msg) = probe.len
            /\ Len(probe.ids) = grefs(probe.width, probe.height)
            /\ Take(probe.msg, 4) = <<WINDOW_DUMP_TYPE_GRANT_REFS, probe.width,
                                       probe.height, 24>>
            /\ Drop(probe.msg, 4) = probe.ids

\* the message of a buffer of 33 grants: the padding word after the odd
\* count is not part of it, and the last word is the last grant reference
C40_Witness ==
    /\ probe.f = "msg"
    /\ probe.width = 1024
    /\ probe.height = 33
    /\ Len(probe.ids) = 33
    /\ Len(probe.msg) = HEADER_U32S + 33
    /\ probe.msg[Len(probe.msg)] = probe.ids[33]
    /\ 8 * probe.capacity = probe.len + SizeOfU32

====
